---- MODULE Spec2Model ----
(***************************************************************************)
(* Neatx / QuickNX: the agent supervisor of the node daemon                *)
(* (neatx/lib/agent.py), the session record (neatx/lib/session.py), the    *)
(* session broker (lib/app/nxserver.py, lib/protocol.py), the session      *)
(* runner of the node daemon (neatx/lib/node.py) and the login front-end   *)
(* (neatx/lib/app/nxserver_login.py).                                      *)
(*                                                                         *)
(* A handler is modelled as the list of primitive statements it executes,  *)
(* computed from the state it starts in; Exec applies the list to the      *)
(* state.  A raised exception ends the list.                               *)
(***************************************************************************)
EXTENDS Integers, Sequences, FiniteSets, TLC

(* ------------------------------ bounds --------------------------------- *)
\* agent ports reported in "Waiting for connection" lines: 1..MaxPort
MaxPort == 2
\* process ids reported by the agent: 1..MaxPid
MaxPid == 2

None == -1
Ports == 1..MaxPort
Pids == 1..MaxPid
\* the pid daemon.Program.Start returns for the spawned agent
SpawnPid == 1

(* ------------------------- constants.py -------------------------------- *)
SESS_STATE_CREATED == "created"
SESS_STATE_STARTING == "starting"
SESS_STATE_WAITING == "waiting"
SESS_STATE_RUNNING == "running"
SESS_STATE_SUSPENDING == "suspending"
SESS_STATE_SUSPENDED == "suspended"
SESS_STATE_TERMINATING == "terminating"
SESS_STATE_TERMINATED == "terminated"

VALID_SESS_STATES ==
  { SESS_STATE_CREATED, SESS_STATE_STARTING, SESS_STATE_WAITING,
    SESS_STATE_RUNNING, SESS_STATE_SUSPENDING, SESS_STATE_SUSPENDED,
    SESS_STATE_TERMINATING, SESS_STATE_TERMINATED }

(* ------------------------- agent stderr lines -------------------------- *)
\* A line is the text up to its variable part (head), the number captured by
\* the pattern's port or pid group (num) and the captured geometry (geo), a
\* sequence of characters.
Line(h, n, g) == [head |-> h, num |-> n, geo |-> g]

\* geometries the agent can announce; the second holds a comma
Geometries == { <<"8", "x", "6">>, <<"8", ",", "6">> }

H_STARTING == "Session: Starting session at"
H_WAITING == "Info: Waiting for connection from"
H_STARTED == "Session: Session started at"
H_RESUMED == "Session: Session resumed at"
H_SUSPENDING == "Session: Suspending session at"
H_SUSPENDED == "Session: Session suspended at"
H_TERMINATING == "Session: Terminating session at"
H_ABORTING == "Session: Aborting session at"
H_TERMINATED == "Session: Session terminated at"
H_ABORTED == "Session: Session aborted at"
H_WATCHDOG_PID == "Info: Watchdog running with pid"
H_WAIT_WATCHDOG == "Info: Waiting the watchdog process to complete."
H_AGENT_PID == "Info: Agent running with pid"
H_ERROR == "Error:"
H_WARNING == "Warning:"
H_GEOMETRY == "Info: Screen [0] resized to geometry"
H_OTHER == "Info: Using alpha channel in render extension."

\* _STATUS_MAP: session state |-> the line heads its pattern matches
STATUS_MAP ==
  [ s \in VALID_SESS_STATES \ {SESS_STATE_CREATED} |->
      CASE s = SESS_STATE_STARTING -> {H_STARTING}
        [] s = SESS_STATE_WAITING -> {H_WAITING}
        [] s = SESS_STATE_RUNNING -> {H_STARTED, H_RESUMED}
        [] s = SESS_STATE_SUSPENDING -> {H_SUSPENDING}
        [] s = SESS_STATE_SUSPENDED -> {H_SUSPENDED}
        [] s = SESS_STATE_TERMINATING -> {H_TERMINATING, H_ABORTING}
        [] s = SESS_STATE_TERMINATED -> {H_TERMINATED, H_ABORTED} ]

StatusHeads == UNION { STATUS_MAP[s] : s \in DOMAIN STATUS_MAP }

AgentLines ==
  { Line(h, 0, <<>>) :
      h \in (StatusHeads \ {H_WAITING})
              \cup {H_WAIT_WATCHDOG, H_ERROR, H_WARNING, H_OTHER} }
  \cup { Line(H_WAITING, p, <<>>) : p \in Ports }
  \cup { Line(h, p, <<>>) : h \in {H_WATCHDOG_PID, H_AGENT_PID}, p \in Pids }
  \cup { Line(H_GEOMETRY, 0, g) : g \in Geometries }

(* ------------------------------ state ---------------------------------- *)
VARIABLES
  sess,          \* the daemon's in-memory record (ctx.session)
  disk,          \* the record file of the session store, NoRecord before a save
  want_restore,  \* NxAgentProgram._want_restore
  agent_pid,     \* NxAgentProgram._agent_pid
  watchdog_pid,  \* NxAgentProgram._watchdog_pid
  lastop,        \* the handler that ran last, with the state it started in
  eff,           \* the statements that handler executed, in order
  restore_from,  \* history: the record state in which the pending restore
                 \* request was made, "" when none is pending
  \* --- the session broker (nxserver) of one client connection, and the
  \* --- node daemons of the sessions in the store
  nodes,         \* session id |-> its directory, daemon, record and supervisor
  pc,            \* where the broker is
  cmd,           \* the command being handled: [cmd, params]
  sid,           \* the session id the command works on
  out,           \* what was written to the client since the last prompt
  trace,         \* the steps the current command has performed
  now,           \* time.time() since utils.Retry was entered, in TimeUnits
  delay,         \* the delay of utils.Retry
  got,           \* the record the last poll loaded
  nxagent_port,  \* NxServerContext.nxagent_port
  ready,         \* history: the sessions that were announced with 710
  relay,         \* the port the data relay was spawned for, None if not
  ncmds,         \* lines read from the client so far
  nlines,        \* status lines the agents have printed so far
  tried,         \* history: the daemons the current command has contacted
  shadowcookie,  \* _AttachSession: the cookie the target's daemon returned
  raised,        \* history: the exception that ended the handling of the
                 \* last line read, "" if none
  todo,          \* the steps the current command's handler has still to do
  \* --- the session runner of one node daemon (node.py SessionRunner)
  runner,        \* its children, whether it has quit, what it started
  \* --- the login front-end (nxserver_login.py), which runs the protocol
  \* --- loop with its own handler
  login,         \* the handler's fields and what the client sent it
  \* --- the authenticator (auth.py) and the helper it talks to
  auth,          \* the helper's output, what was read of it, the outcome
  \* --- the session store (session.py, utils.WriteFile) under several
  \* --- processes
  store          \* the files of the directory and each process's position

avars ==
  <<sess, disk, want_restore, agent_pid, watchdog_pid, lastop, eff,
    restore_from>>

bvars ==
  <<nodes, pc, cmd, sid, out, trace, now, delay, got, nxagent_port, ready,
    relay, ncmds, nlines, tried, shadowcookie, raised, todo>>

xvars == <<auth, store>>

nvars == <<runner, login, xvars>>

vars == <<avars, bvars, nvars>>

NoRecord ==
  [state |-> "", port |-> None, geometry |-> <<>>, rootless |-> FALSE,
   ssl |-> FALSE]

(* --------------------------- statements -------------------------------- *)
Stmt(o, s, i, q) == [op |-> o, a |-> s, n |-> i, g |-> q]

SetState(new) == Stmt("sess.state", new, 0, <<>>)
SetPort(p) == Stmt("sess.port", "", p, <<>>)
SetGeometry(q) == Stmt("sess.geometry", "", 0, q)
Save == Stmt("sess.Save", "", 0, <<>>)
SetWantRestore(b) == Stmt("_want_restore", "", IF b THEN 1 ELSE 0, <<>>)
SetAgentPid(p) == Stmt("_agent_pid", "", p, <<>>)
SetWatchdogPid(p) == Stmt("_watchdog_pid", "", p, <<>>)
Kill(sig, p) == Stmt("os.kill", sig, p, <<>>)
WriteOptions == Stmt("WriteFile", "options", 0, <<>>)
Emit(sig) == Stmt("emit", sig, 0, <<>>)
Raise(err) == Stmt("raise", err, 0, <<>>)

DISPLAY_READY_SIGNAL == "display-ready"

Raised(ss) == Len(ss) > 0 /\ ss[Len(ss)].op = "raise"

\* ss ; tt  -- tt runs unless ss raised
Then(ss, tt) == IF Raised(ss) THEN ss ELSE ss \o tt

\* The state a handler works on.
Sup(s, d, w, ap, wp) ==
  [sess |-> s, disk |-> d, want_restore |-> w, agent_pid |-> ap,
   watchdog_pid |-> wp]

\* session.py __setattr__: an invalid state raises and assigns nothing, so
\* the statement list never holds one (ChangeStatus passes pattern states).
Step(st, x) ==
  CASE x.op = "sess.state" -> [st EXCEPT !.sess.state = x.a]
    [] x.op = "sess.port" -> [st EXCEPT !.sess.port = x.n]
    [] x.op = "sess.geometry" -> [st EXCEPT !.sess.geometry = x.g]
    [] x.op = "sess.Save" -> [st EXCEPT !.disk = st.sess]
    [] x.op = "_want_restore" -> [st EXCEPT !.want_restore = (x.n = 1)]
    [] x.op = "_agent_pid" -> [st EXCEPT !.agent_pid = x.n]
    [] x.op = "_watchdog_pid" -> [st EXCEPT !.watchdog_pid = x.n]
    [] OTHER -> st

RECURSIVE Exec(_, _)
Exec(st, ss) == IF ss = <<>> THEN st ELSE Exec(Step(st, Head(ss)), Tail(ss))

(* ----------------------- agent.py: NxAgentProgram ---------------------- *)
\* __CheckStrChars: illegal_chars = [","]
HasIllegalChar(s) == \E i \in DOMAIN s : s[i] = ","

\* _GetOptions: the option values that vary during a session.  geometry is
\* an option only when the session is not rootless; the other values are
\* those NxAgentProgram.Start wrote when the agent was started.
VaryingOptionValues(s) == IF ~s.rootless THEN {s.geometry} ELSE {}

\* _UpdateOptionsFile -> _WriteOptionsFile -> __CheckOptsChars, WriteFile
UpdateOptionsFile(st) ==
  IF \E v \in VaryingOptionValues(st.sess) : HasIllegalChar(v)
    THEN <<Raise("IllegalCharacterError")>>
    ELSE <<WriteOptions>>

\* mutant: ESRCH is raised like any other OSError
SendSignal_EsrchRaised(st, sig) ==
  IF st.agent_pid \in store.gone
    THEN <<Kill(sig, st.agent_pid), Raise("OSError")>>
    ELSE <<Kill(sig, st.agent_pid)>>

\* _SendSignal: os.kill(self._agent_pid, signum); ESRCH is swallowed
SendSignal(st, sig) == <<Kill(sig, st.agent_pid)>>

\* Terminate: SIGTERM to nxagent
Terminate(st) == SendSignal(st, "SIGTERM")

SendSighup(st) == SendSignal(st, "SIGHUP")

\* mutant: the hangup is sent before the options file is rewritten
PrepareSessionRestore_KillFirst(st) == Then(SendSighup(st), UpdateOptionsFile(st))

PrepareSessionRestore(st) == Then(UpdateOptionsFile(st), SendSighup(st))

\* the lifecycle order of the states
StateOrder ==
  << SESS_STATE_CREATED, SESS_STATE_STARTING, SESS_STATE_WAITING,
     SESS_STATE_RUNNING, SESS_STATE_SUSPENDING, SESS_STATE_SUSPENDED,
     SESS_STATE_TERMINATING, SESS_STATE_TERMINATED >>
Rank(s) == CHOOSE i \in DOMAIN StateOrder : StateOrder[i] = s
Backwards(old, new) ==
  /\ Rank(new) < Rank(old)
  /\ {old, new} # {SESS_STATE_RUNNING, SESS_STATE_SUSPENDED}

\* mutant: display-ready is emitted whatever state follows created
ChangeStatusBranch_ReadyOnAnyExit(m, old, new, st) ==
  IF new = old THEN <<>>
  ELSE IF old = SESS_STATE_CREATED
    THEN <<Emit(DISPLAY_READY_SIGNAL)>>
  ELSE IF new = SESS_STATE_WAITING
    THEN <<SetPort(m.num)>>
  ELSE IF old = SESS_STATE_SUSPENDING /\ new = SESS_STATE_SUSPENDED
          /\ st.want_restore
    THEN Then(<<SetWantRestore(FALSE)>>, PrepareSessionRestore(st))
  ELSE <<>>

\* mutant: the pending restore is acted on whatever state precedes suspended
ChangeStatusBranch_AnyOld(m, old, new, st) ==
  IF new = old THEN <<>>
  ELSE IF old = SESS_STATE_CREATED /\ new = SESS_STATE_STARTING
    THEN <<Emit(DISPLAY_READY_SIGNAL)>>
  ELSE IF new = SESS_STATE_WAITING
    THEN <<SetPort(m.num)>>
  ELSE IF new = SESS_STATE_SUSPENDED /\ st.want_restore
    THEN Then(<<SetWantRestore(FALSE)>>, PrepareSessionRestore(st))
  ELSE <<>>

\* mutant: the port is forgotten when the session ends
ChangeStatusBranch_ClearPort(m, old, new, st) ==
  IF new = old THEN <<>>
  ELSE IF old = SESS_STATE_CREATED /\ new = SESS_STATE_STARTING
    THEN <<Emit(DISPLAY_READY_SIGNAL)>>
  ELSE IF new = SESS_STATE_WAITING
    THEN <<SetPort(m.num)>>
  ELSE IF old = SESS_STATE_SUSPENDING /\ new = SESS_STATE_SUSPENDED
          /\ st.want_restore
    THEN Then(<<SetWantRestore(FALSE)>>, PrepareSessionRestore(st))
  ELSE IF new \in {SESS_STATE_TERMINATING, SESS_STATE_TERMINATED}
    THEN <<SetPort(None)>>
  ELSE <<>>

\* mutant: the pending restore stays pending after its hangup
ChangeStatusBranch_StillPending(m, old, new, st) ==
  IF new = old THEN <<>>
  ELSE IF old = SESS_STATE_CREATED /\ new = SESS_STATE_STARTING
    THEN <<Emit(DISPLAY_READY_SIGNAL)>>
  ELSE IF new = SESS_STATE_WAITING
    THEN <<SetPort(m.num)>>
  ELSE IF old = SESS_STATE_SUSPENDING /\ new = SESS_STATE_SUSPENDED
          /\ st.want_restore
    THEN PrepareSessionRestore(st)
  ELSE <<>>

\* mutant: display-ready is emitted whenever the record becomes starting
ChangeStatusBranch_ReadyAtStarting(m, old, new, st) ==
  IF new = old THEN <<>>
  ELSE IF new = SESS_STATE_STARTING
    THEN <<Emit(DISPLAY_READY_SIGNAL)>>
  ELSE IF new = SESS_STATE_WAITING
    THEN <<SetPort(m.num)>>
  ELSE IF old = SESS_STATE_SUSPENDING /\ new = SESS_STATE_SUSPENDED
          /\ st.want_restore
    THEN Then(<<SetWantRestore(FALSE)>>, PrepareSessionRestore(st))
  ELSE <<>>

\* the elif chain of _ChangeStatus, before sess.state = new
ChangeStatusBranch(m, old, new, st) ==
  IF new = old THEN <<>>
  ELSE IF old = SESS_STATE_CREATED /\ new = SESS_STATE_STARTING
    THEN <<Emit(DISPLAY_READY_SIGNAL)>>
  ELSE IF new = SESS_STATE_WAITING
    THEN <<SetPort(m.num)>>
  ELSE IF old = SESS_STATE_SUSPENDING /\ new = SESS_STATE_SUSPENDED
          /\ st.want_restore
    THEN Then(<<SetWantRestore(FALSE)>>, PrepareSessionRestore(st))
  ELSE <<>>

\* mutant: a line that would move the record backwards is ignored
ChangeStatus_Monotonic(m, old, new, st) ==
  IF Backwards(old, new) THEN <<>>
  ELSE Then(ChangeStatusBranch(m, old, new, st), <<SetState(new), Save>>)

ChangeStatus(m, old, new, st) ==
  Then(ChangeStatusBranch(m, old, new, st), <<SetState(new), Save>>)

\* the state whose pattern matches the line (the patterns are disjoint)
MatchedStatus(line) ==
  CHOOSE s \in DOMAIN STATUS_MAP : line.head \in STATUS_MAP[s]

IsStatusLine(line) == \E s \in DOMAIN STATUS_MAP : line.head \in STATUS_MAP[s]

CheckStatus(line, st) ==
  ChangeStatus(line, st.sess.state, MatchedStatus(line), st)

ChangeGeometry(geometry) == <<SetGeometry(geometry), Save>>

\* mutant: the terminate signal for the watchdog goes to the agent
HandleStderrLine_KillAgent(line, st) ==
  IF IsStatusLine(line) THEN CheckStatus(line, st)
  ELSE IF line.head = H_WATCHDOG_PID THEN <<SetWatchdogPid(line.num)>>
  ELSE IF line.head = H_AGENT_PID
    THEN IF st.agent_pid # line.num THEN <<SetAgentPid(line.num)>> ELSE <<>>
  ELSE IF line.head = H_WAIT_WATCHDOG
    THEN IF st.watchdog_pid = None THEN <<>>
         ELSE <<Kill("SIGTERM", st.agent_pid)>>
  ELSE IF line.head \in {H_ERROR, H_WARNING} THEN <<>>
  ELSE IF line.head = H_GEOMETRY THEN ChangeGeometry(line.geo)
  ELSE <<>>

HandleStderrLine(line, st) ==
  IF IsStatusLine(line) THEN CheckStatus(line, st)
  ELSE IF line.head = H_WATCHDOG_PID THEN <<SetWatchdogPid(line.num)>>
  ELSE IF line.head = H_AGENT_PID
    THEN IF st.agent_pid # line.num THEN <<SetAgentPid(line.num)>> ELSE <<>>
  ELSE IF line.head = H_WAIT_WATCHDOG
    THEN IF st.watchdog_pid = None THEN <<>>
         ELSE <<Kill("SIGTERM", st.watchdog_pid)>>
  ELSE IF line.head \in {H_ERROR, H_WARNING} THEN <<>>
  ELSE IF line.head = H_GEOMETRY THEN ChangeGeometry(line.geo)
  ELSE <<>>

\* mutant: a restore in any other state sends the hangup as well
Restore_HangupAlways(st) ==
  IF st.sess.state = SESS_STATE_SUSPENDING THEN <<SetWantRestore(TRUE)>>
  ELSE IF st.sess.state = SESS_STATE_SUSPENDED THEN PrepareSessionRestore(st)
  ELSE Then(SendSighup(st), <<SetWantRestore(TRUE)>>)

Restore(st) ==
  IF st.sess.state = SESS_STATE_SUSPENDING THEN <<SetWantRestore(TRUE)>>
  ELSE IF st.sess.state = SESS_STATE_SUSPENDED THEN PrepareSessionRestore(st)
  ELSE IF st.sess.state = SESS_STATE_RUNNING
    THEN Then(SendSighup(st), <<SetWantRestore(TRUE)>>)
  ELSE <<Raise("GenericError")>>

(* ---------------- the session store and the node daemons --------------- *)
\* the ids NewUniqueId can return
Sids == { "A28E", "F5AA" }

NoSid == ""

\* the id of a session that another user left in the store
ForeignSids == { "C543" }

AllSids == Sids \cup ForeignSids

\* the user of the connection (ctx.username) and another one
USERNAME == "alice"

OTHER_USERNAME == "bob"

\* SessionBase.username of the record of session s: the daemons this broker
\* starts are started for its user
RecordOwner(s) == IF s \in Sids THEN USERNAME ELSE OTHER_USERNAME

\* SessionBase.cookie of session s, a token of its own
CookieOf(s) == <<"cookie", s>>

NoCookie == <<>>

\* a contact with the daemon of session s: a connect (with or without
\* retry) or a request (with the shadow cookie it passes, if any)
Contact(o, s, r, c) == [op |-> o, sid |-> s, retry |-> r, cookie |-> c]

\* a supervisor that was never started
NoSup == Sup(NoRecord, NoRecord, FALSE, None, None)

\* what there is of a session: phase "none" no directory, "dir" the
\* directory, "forked" the daemon runs, "listening" its socket accepts,
\* "xauth" the record is written and xauth runs, "agent" the agent runs,
\* "gone" the daemon has exited
Node(ph, st) == [phase |-> ph, sup |-> st]

NoNode == Node("none", NoSup)

\* the other user's session: suspended, its daemon gone
ForeignRecord ==
  [state |-> SESS_STATE_SUSPENDED, port |-> 1, geometry |-> <<"8", "x", "6">>,
   rootless |-> FALSE, ssl |-> TRUE]

ForeignNode == Node("gone", Sup(ForeignRecord, ForeignRecord, FALSE, None, None))

\* a line the client never sent
NoParams == [form |-> "empty", id |-> NoSid, enc |-> ""]

NoCmd == [cmd |-> "", params |-> NoParams]

NoRelay == [host |-> "", port |-> None]

TicksPerSecond == 640

RETRY_START == TicksPerSecond \div 10

RETRY_LIMIT == TicksPerSecond

\* the broker at position p of a connection on which nothing has happened
BrokerAt(p) ==
  /\ nodes = [s \in AllSids |-> IF s \in Sids THEN NoNode ELSE ForeignNode]
  /\ pc = p
  /\ cmd = NoCmd
  /\ sid = NoSid
  /\ out = <<>>
  /\ trace = <<>>
  /\ todo = <<>>
  /\ now = 0
  /\ delay = RETRY_START
  /\ got = NoRecord
  /\ nxagent_port = None
  /\ ready = <<>>
  /\ relay = NoRelay
  /\ ncmds = 0
  /\ nlines = 0
  /\ tried = <<>>
  /\ shadowcookie = NoCookie
  /\ raised = ""

(* ---------------------- node.py: SessionRunner ------------------------ *)
\* a child process of the daemon: not started, running, or exited with the
\* exit status and signal number daemon.Program reports (None when absent)
Child(s, e, n) == [st |-> s, exitstatus |-> e, signum |-> n]

NoChild == Child("none", None, None)

Running == Child("running", None, None)

\* the ways a child ends: status 0, status 1, killed by SIGTERM
Exits == { <<0, None>>, <<1, None>>, <<None, 15>> }

Exited(e) == Child("exited", e[1], e[2])

\* the test of __XAuthDone and __UserAppDone for a failed child
Failed(c) == c.exitstatus # 0 \/ c.signum # None

\* the runner before Start: no child, the daemon runs; command tells whether
\* the session has a command (shadow sessions have none), started lists the
\* children in the order they were started, terminated whether the agent was
\* told to quit
NoRunner ==
  [xauth |-> NoChild, nxagent |-> NoChild, xrdb |-> NoChild,
   userapp |-> NoChild, nxdialog |-> NoChild, command |-> FALSE,
   started |-> <<>>, terminated |-> FALSE, quit |-> FALSE, begun |-> FALSE]

(* ------------------ nxserver_login.py: the handler's data -------------- *)
\* the argument of a line: for hello whether it starts with
\* "nxclient - version " and the characters of the version after it, for
\* set the variable and the value
Args(c, v, x, y) == [client |-> c, ver |-> v, var |-> x, value |-> y]

NoArgs == Args(FALSE, <<>>, "", "")

\* LoginCommandHandler.__init__, before any line: nx tells whether the
\* process runs as constants.NXUSER, args is the argument of the last hello
\* or set, accepted the version written with 134, argv what was executed
NoLogin ==
  [nx |-> TRUE, protocol_version |-> None, args |-> NoArgs, accepted |-> <<>>,
   username |-> "", password |-> "", argv |-> <<>>, result |-> ""]

\* _ExpectAuthBase.AuthenticateAndRun after pexpect.spawn: seen is what the
\* helper has written, pos how much of it expect has consumed, eof whether
\* the helper has closed its terminal, sent the number of passwords sent
NoAuth ==
  [pc |-> "expect", seen |-> <<>>, pos |-> 0, eof |-> FALSE, sent |-> 0,
   auth_successful |-> FALSE, spliced |-> FALSE, raised |-> ""]

NoStore == [none |-> TRUE]

(* ------------------------- the supervisor's steps ---------------------- *)
Cur == Sup(sess, disk, want_restore, agent_pid, watchdog_pid)

NoLine == Line("", 0, <<>>)

\* the supervisor runs the statements ss of handler op
Handle(op, line, ss) ==
  LET st == Exec(Cur, ss) IN
    /\ sess' = st.sess
    /\ disk' = st.disk
    /\ want_restore' = st.want_restore
    /\ agent_pid' = st.agent_pid
    /\ watchdog_pid' = st.watchdog_pid
    /\ lastop' = [op |-> op, line |-> line, old |-> Cur, from |-> restore_from]
    /\ eff' = ss
    /\ restore_from' =
         IF ~st.want_restore THEN ""
         ELSE IF op = "restore" /\ ~Raised(ss) THEN sess.state
         ELSE restore_from

\* run the statements ss of handler op
Run(op, line, ss) == Handle(op, line, ss) /\ UNCHANGED <<bvars, nvars>>

\* SessionBase.__init__ and NodeSession.__init__: state created, no port,
\* the client's geometry, which NxAgentProgram.Start found legal
InitSess ==
  { [state |-> SESS_STATE_CREATED, port |-> None, geometry |-> g,
     rootless |-> r, ssl |-> TRUE] :
      g \in {q \in Geometries : ~HasIllegalChar(q)}, r \in BOOLEAN }

\* the record file when the agent is started: the node daemon writes the
\* record once it has parsed the client's parameters
InitDisk(s) == s

\* NxAgentProgram.__init__ and Start
InitAgent ==
  /\ sess \in InitSess
  /\ disk = InitDisk(sess)
  /\ want_restore = FALSE
  /\ agent_pid = SpawnPid
  /\ watchdog_pid = None
  /\ lastop = [op |-> "init", line |-> NoLine,
               old |-> Sup(sess, NoRecord, FALSE, SpawnPid, None), from |-> ""]
  /\ eff = <<>>
  /\ restore_from = ""
  /\ BrokerAt("off")
  /\ runner = NoRunner
  /\ login = NoLogin
  /\ auth = NoAuth
  /\ store = NoStore


\* one line of the agent's stderr arrives (_HandleStderrLine)
AgentLine == \E line \in AgentLines : Run("line", line, HandleStderrLine(line, Cur))

\* the restore RPC reaches SessionRunner.Restore -> NxAgentProgram.Restore
RestoreRequest == Run("restore", NoLine, Restore(Cur))

NextAgent == AgentLine \/ RestoreRequest

SpecAgent == InitAgent /\ [][NextAgent]_vars

(* ------------------ reading the last handler's statements -------------- *)
Idx(o) == { i \in DOMAIN eff : eff[i].op = o }
Hangups == { i \in DOMAIN eff : eff[i].op = "os.kill" /\ eff[i].a = "SIGHUP" }
\* the record's state when statement i of the last handler ran
StateAt(i) == Exec(lastop.old, SubSeq(eff, 1, i - 1)).sess.state
LastIsLine == lastop.op = "line"
LastIsStatusLine == LastIsLine /\ IsStatusLine(lastop.line)
LastStatus == MatchedStatus(lastop.line)
LastIsRestore == lastop.op = "restore"
OldState == lastop.old.sess.state
\* the options file could be rewritten when the last handler started
OldOptionsLegal == ~\E v \in VaryingOptionValues(lastop.old.sess) : HasIllegalChar(v)
\* the last handler was the line "Session suspended" with a restore pending
PendingAtSuspended ==
  /\ LastIsStatusLine /\ LastStatus = SESS_STATE_SUSPENDED
  /\ lastop.old.want_restore

(* ------------------------------- C1 ------------------------------------ *)
\* C1: after the handler of a line matching a status pattern, the record's
\* state has been set to the pattern's state by exactly one assignment and
\* the record has been saved exactly once, after that assignment.
C1_StatusLinePersisted ==
  LastIsStatusLine =>
    /\ Cardinality(Idx("sess.state")) = 1
    /\ Cardinality(Idx("sess.Save")) = 1
    /\ \A i \in Idx("sess.state"), j \in Idx("sess.Save") : i < j
    /\ sess.state = LastStatus
    /\ disk.state = LastStatus

(* ------------------------------- C2 ------------------------------------ *)
\* C2 (as claimed): a restore requested while running sends one hangup at
\* once, and the next transition of the record to suspended sends the second
\* hangup, whatever state that transition starts from.
C2_SecondHangupAtAnySuspended ==
  /\ (LastIsRestore /\ OldState = SESS_STATE_RUNNING)
       => Cardinality(Hangups) = 1
  /\ (PendingAtSuspended /\ lastop.from = SESS_STATE_RUNNING
        /\ OldState # SESS_STATE_SUSPENDED)
       => Cardinality(Hangups) = 1

\* C2 (amended): a restore requested while running sends exactly one hangup
\* at once and leaves the request pending; the request stays pending until
\* the line "Session suspended" is handled while the record is suspending:
\* that handler clears the request, rewrites the options file and then sends
\* exactly one hangup, or sends none when the rewrite raises; the same line
\* handled in any other state sends no hangup and keeps the request pending.
C2_SecondHangupFromSuspending ==
  /\ (LastIsRestore /\ OldState = SESS_STATE_RUNNING)
       => /\ eff = <<Kill("SIGHUP", lastop.old.agent_pid), SetWantRestore(TRUE)>>
          /\ want_restore
  /\ (PendingAtSuspended /\ OldState = SESS_STATE_SUSPENDING)
       => /\ ~want_restore
          /\ IF OldOptionsLegal
               THEN /\ Cardinality(Hangups) = 1
                    /\ \A i \in Idx("WriteFile"), j \in Hangups : i < j
                    /\ Cardinality(Idx("WriteFile")) = 1
               ELSE Hangups = {} /\ Raised(eff)
  /\ (PendingAtSuspended /\ OldState # SESS_STATE_SUSPENDING)
       => Hangups = {} /\ want_restore
  /\ (lastop.old.want_restore /\ ~want_restore)
       => PendingAtSuspended /\ OldState = SESS_STATE_SUSPENDING

C2_Witness ==
  /\ PendingAtSuspended /\ OldState = SESS_STATE_SUSPENDING
  /\ lastop.from = SESS_STATE_RUNNING
  /\ Cardinality(Hangups) = 1

(* ------------------------------- C3 ------------------------------------ *)
\* C3 (as claimed): a restore requested while suspending sends nothing at
\* once and at the transition to suspended the options file is rewritten and
\* then one hangup is sent; a restore requested while suspended rewrites the
\* options file and then sends exactly one hangup.
C3_RestoreRewritesThenHangup ==
  /\ (LastIsRestore /\ OldState = SESS_STATE_SUSPENDING)
       => Idx("os.kill") = {} /\ want_restore
  /\ (PendingAtSuspended /\ OldState = SESS_STATE_SUSPENDING
        /\ lastop.from = SESS_STATE_SUSPENDING)
       => /\ Cardinality(Idx("WriteFile")) = 1
          /\ Cardinality(Hangups) = 1
          /\ \A i \in Idx("WriteFile"), j \in Hangups : i < j
  /\ (LastIsRestore /\ OldState = SESS_STATE_SUSPENDED)
       => eff = <<WriteOptions, Kill("SIGHUP", lastop.old.agent_pid)>>

\* C3 (amended): as claimed when no option value holds a comma; when one
\* does, rewriting the options file raises the illegal-character error and
\* no hangup is sent, neither at the transition (where the pending request
\* is cleared all the same) nor by the restore requested while suspended
\* (which changes nothing).
C3_RestoreRewritesUnlessIllegal ==
  /\ (LastIsRestore /\ OldState = SESS_STATE_SUSPENDING)
       => eff = <<SetWantRestore(TRUE)>> /\ want_restore
  /\ (PendingAtSuspended /\ OldState = SESS_STATE_SUSPENDING
        /\ lastop.from = SESS_STATE_SUSPENDING)
       => IF OldOptionsLegal
            THEN /\ Cardinality(Idx("WriteFile")) = 1
                 /\ Cardinality(Hangups) = 1
                 /\ \A i \in Idx("WriteFile"), j \in Hangups : i < j
            ELSE /\ eff = <<SetWantRestore(FALSE), Raise("IllegalCharacterError")>>
                 /\ ~want_restore
  /\ (LastIsRestore /\ OldState = SESS_STATE_SUSPENDED)
       => IF OldOptionsLegal
            THEN eff = <<WriteOptions, Kill("SIGHUP", lastop.old.agent_pid)>>
            ELSE /\ eff = <<Raise("IllegalCharacterError")>>
                 /\ Cur = lastop.old

C3_Witness ==
  /\ PendingAtSuspended /\ OldState = SESS_STATE_SUSPENDING
  /\ lastop.from = SESS_STATE_SUSPENDING
  /\ Cardinality(Hangups) = 1

(* ------------------------------- C4 ------------------------------------ *)
NoHangupStates ==
  { SESS_STATE_CREATED, SESS_STATE_STARTING, SESS_STATE_WAITING,
    SESS_STATE_TERMINATING, SESS_STATE_TERMINATED }

\* C4: no hangup is sent while the record's state is created, starting,
\* waiting, terminating or terminated, and a restore requested in one of these
\* states raises, sends no signal and leaves the record, the record file and
\* the pending request as they were.
C4_NoHangupElsewhere ==
  /\ \A i \in Hangups : StateAt(i) \notin NoHangupStates
  /\ (LastIsRestore /\ OldState \in NoHangupStates)
       => /\ eff = <<Raise("GenericError")>>
          /\ Cur = lastop.old

C4_Witness ==
  /\ LastIsRestore /\ OldState = SESS_STATE_TERMINATING
  /\ lastop.old.want_restore /\ want_restore

(* ------------------------------- C5 ------------------------------------ *)
\* C5 (as claimed): no handler moves the record's state backwards in the
\* lifecycle order, moves between running and suspended excepted.
C5_NeverBackwards == ~Backwards(OldState, sess.state)

\* C5 (amended): the record's state changes only when a line matching a
\* status pattern is handled, and after such a line, handled without an
\* error, it is the state of the matched pattern, whatever the state before:
\* the record moves backwards whenever the agent's lines do.
C5_StateMirrorsAgentLines ==
  /\ sess.state # OldState => LastIsStatusLine
  /\ (LastIsStatusLine /\ ~Raised(eff))
       => sess.state = LastStatus /\ disk.state = LastStatus
  /\ (LastIsStatusLine /\ Raised(eff)) => sess.state = OldState

\* the resume path: suspended, then waiting for the client's connection
C5_Witness ==
  /\ LastIsStatusLine /\ OldState = SESS_STATE_SUSPENDED
  /\ sess.state = SESS_STATE_WAITING

(* ------------------------------- C6 ------------------------------------ *)
ConnectableStates ==
  { SESS_STATE_WAITING, SESS_STATE_RUNNING, SESS_STATE_SUSPENDING,
    SESS_STATE_SUSPENDED }

\* C6 (as claimed): the record's port is set only while its state is
\* waiting, running, suspending or suspended.
C6_PortOnlyWhileConnectable ==
  /\ sess.port # None => sess.state \in ConnectableStates
  /\ disk.port # None => disk.state \in ConnectableStates

\* C6 (amended): the port is unset in state created; it is set only by the
\* handler of a "Waiting for connection" line that finds the record in
\* another state than waiting, to the port of that line; once set it is never
\* unset again, whatever state the record enters; the record file holds the
\* same port.
C6_PortSetByWaitingNeverCleared ==
  /\ sess.state = SESS_STATE_CREATED => sess.port = None
  /\ lastop.old.sess.port # None => sess.port # None
  /\ sess.port # lastop.old.sess.port
       => /\ LastIsStatusLine /\ LastStatus = SESS_STATE_WAITING
          /\ OldState # SESS_STATE_WAITING
          /\ sess.port = lastop.line.num
  /\ disk.port = sess.port

C6_Witness ==
  /\ sess.state = SESS_STATE_TERMINATED /\ sess.port # None
  /\ disk.state = SESS_STATE_TERMINATED /\ disk.port # None

(* ------------------------------- C7 ------------------------------------ *)
\* C7: after the handler of a "Waiting for connection ... on port 'N'" line
\* the record's port is N, also when the record was already waiting.
C7_PortIsReportedPort ==
  (LastIsStatusLine /\ LastStatus = SESS_STATE_WAITING)
    => sess.port = lastop.line.num /\ disk.port = lastop.line.num

(* ===================== nxserver: the session broker ==================== *)
MaxCmds == 2

MaxLines == 3

SESSION_START_TIMEOUT == 30

SESSION_RESTORE_TIMEOUT == 60

NX_CMD_HELLO == "hello"
NX_CMD_BYE == "bye"
NX_CMD_LOGIN == "login"
NX_CMD_LISTSESSION == "listsession"
NX_CMD_STARTSESSION == "startsession"
NX_CMD_ATTACHSESSION == "attachsession"
NX_CMD_RESTORESESSION == "restoresession"
NX_CMD_SET == "set"
NX_CMD_QUIT == "quit"

NX_TRUE == "1"

\* a line written without a code (WriteLine)
PLAIN == 0

\* parameter strings: well-formed ones carry the --id and --encryption
\* they name (a session name and type are always among the others)
OkParams(i, e) == [form |-> "ok", id |-> i, enc |-> e]

BadParams == [form |-> "bad", id |-> NoSid, enc |-> ""]

ParamLines ==
  { OkParams(i, NX_TRUE) : i \in AllSids \cup {NoSid} }
    \cup { OkParams(NoSid, "0"), BadParams }

ParamCmds ==
  { NX_CMD_LISTSESSION, NX_CMD_STARTSESSION, NX_CMD_ATTACHSESSION,
    NX_CMD_RESTORESESSION }

\* the non-empty lines a client sends
ClientLines ==
  { [cmd |-> c, params |-> q] : c \in ParamCmds,
                                q \in ParamLines \cup {NoParams} }
    \cup { [cmd |-> c, params |-> NoParams] :
             c \in {NX_CMD_HELLO, NX_CMD_BYE, NX_CMD_LOGIN, NX_CMD_SET,
                    NX_CMD_QUIT} }

\* GetClientSessionInfo
SessionInfoCodes == <<700, 705, 703, 701, 706, 704, 728, 707, 708>>

\* _ConnectToSession: wait for the session, write its details, keep its port
ConnectToSessionSteps == <<"wait", "info">>

\* mutant: the details are written before the session is waited for
StartSessionSteps_InfoFirst ==
  <<"params", "parse", "create", "daemon", "connect", "rpc", "info", "wait">>

\* the handlers' statements that touch the client, the store or a daemon,
\* in source order
StartSessionSteps ==
  <<"params", "parse", "create", "daemon", "connect", "rpc">>
    \o ConnectToSessionSteps

\* mutant: the new session is set up before the target is asked
AttachSessionSteps_CreateFirst ==
  <<"params", "parse", "shadowid", "create", "daemon", "shadowconnect",
    "shadowrpc", "connect", "rpc">> \o ConnectToSessionSteps

AttachSessionSteps ==
  <<"params", "parse", "shadowid", "shadowconnect", "shadowrpc", "create",
    "daemon", "connect", "rpc">> \o ConnectToSessionSteps

RestoreSessionSteps ==
  <<"params", "parse", "restoreid", "load", "connect", "rpc">>
    \o ConnectToSessionSteps

ListSessionSteps == <<"params", "parse", "list">>

\* ServerCommandHandler.__call__: the handler a command is dispatched to
Handler(c) ==
  CASE c = NX_CMD_LISTSESSION -> ListSessionSteps
    [] c = NX_CMD_STARTSESSION -> StartSessionSteps
    [] c = NX_CMD_ATTACHSESSION -> AttachSessionSteps
    [] c = NX_CMD_RESTORESESSION -> RestoreSessionSteps

\* the statement the handler is at
At(step) == pc = "run" /\ todo # <<>> /\ Head(todo) = step

\* the statement is done, having written o in all
Advance(o) ==
  /\ out' = o
  /\ UNCHANGED raised
  /\ trace' = Append(trace, Head(todo))
  /\ todo' = Tail(todo)
  /\ pc' = IF Tail(todo) = <<>> THEN "prompt" ELSE "run"

\* Write: whether the text ends with a newline; message is "" and newline
\* is "None" when the argument is not given
WriteNewline(message, newline) ==
  \/ newline = "None" /\ message # ""
  \/ newline # "None" /\ newline = "True"

\* mutant: the loop says goodbye twice
ByeCodes_Twice == <<999, 999>>

\* NxServerBase.Start, except NxQuitServer: Write(999, "Bye.")
ByeCodes == <<999>>

\* NxServerBase.Start, except NxQuitServer: the loop is left
Leave(o) ==
  /\ out' = o \o ByeCodes
  /\ pc' = "ended"
  /\ UNCHANGED <<trace, todo>>

\* NxServerBase.Start, except NxQuietQuitServer: the loop is left in silence
LeaveQuietly(o) ==
  /\ out' = o
  /\ pc' = "ended"
  /\ raised' = "NxQuietQuitServer"
  /\ UNCHANGED <<trace, todo>>

\* NxQuitServer is raised after o was written
Quit(o) == Leave(o) /\ raised' = "NxQuitServer"

\* mutant: no protocol error ends the loop
EndsLoop_Never(fatal) == FALSE

\* NxServerBase.Start: if err.fatal: raise NxQuitServer()
EndsLoop(fatal) == fatal

\* mutant: the loop reads on after an error without a prompt
AfterError_Read == "read"

\* NxServerBase.Start: after the except clause the while loop goes round
AfterError == "prompt"

\* NxServerBase.Start, except NxProtocolError, for the exception e
Caught(o, code, fatal, e) ==
  /\ raised' = e
  /\ IF EndsLoop(fatal) THEN Leave(o \o <<code>>)
     ELSE /\ out' = o \o <<code>>
          /\ pc' = AfterError
          /\ UNCHANGED <<trace, todo>>

\* the handler raises NxProtocolError(code, message, fatal)
ProtocolError(o, code, fatal) ==
  Caught(o, code, fatal,
         IF fatal THEN "fatal NxProtocolError" ELSE "NxProtocolError")

\* NxServerBase._HandleLine: any other exception becomes
\* NxProtocolError(500, "Internal error", fatal=True)
InternalError(o) == Caught(o, 500, TRUE, "Exception")

\* a session became ready and was announced
Ready(s, p) == [sid |-> s, port |-> p]

(* ------------------------- the node daemon's side ---------------------- *)
\* the socket of the session accepts connections
Connectable(n) == n.phase \in {"listening", "xauth", "agent"}

\* NodeSession.__init__: the record of a new session
NewSess ==
  [state |-> SESS_STATE_CREATED, port |-> None, geometry |-> <<"8", "x", "6">>,
   rootless |-> FALSE, ssl |-> TRUE]

\* mutant: the encryption parameter is not looked at
ParamsAccepted_Any(q) == TRUE

\* NodeSession.__init__: unencrypted sessions are refused
ParamsAccepted(q) == q.enc = NX_TRUE

Reply(ok, err, n) == [ok |-> ok, err |-> err, node |-> n]

\* the daemon's start and attach procedures: build the record from the
\* client's parameters, write it, start the session (xauth first)
NodeStartSession(n, q) ==
  IF n.phase # "listening" THEN Reply(FALSE, "GenericError", n)
  ELSE IF ~ParamsAccepted(q) THEN Reply(FALSE, "SessionParameterError", n)
  ELSE Reply(TRUE, "", Node("xauth", Sup(NewSess, NewSess, FALSE, None, None)))

\* the daemon's restore procedure: SessionRunner.Restore
NodeRestoreSession(n) ==
  IF n.phase # "agent" THEN Reply(FALSE, "GenericError", n)
  ELSE LET ss == Restore(n.sup) IN
         Reply(~Raised(ss), IF Raised(ss) THEN ss[Len(ss)].a ELSE "",
               Node(n.phase, Exec(n.sup, ss)))

\* the daemon's shadow cookie procedure: the cookie of its session
NodeGetShadowCookie(n) ==
  IF n.phase \in {"xauth", "agent"} THEN Reply(TRUE, "", n)
  ELSE Reply(FALSE, "GenericError", n)

\* NodeClient._SendRequest: the reply of daemon n, none if the daemon is gone
SendRequest(n, c, q) ==
  IF ~Connectable(n) THEN Reply(FALSE, "GenericError", n)
  ELSE IF c = NX_CMD_RESTORESESSION THEN NodeRestoreSession(n)
  ELSE IF c = "getshadowcookie" THEN NodeGetShadowCookie(n)
  ELSE NodeStartSession(n, q)

\* the daemon's shadow cookie procedure: its result
ShadowCookie(s) == CookieOf(s)

\* AttachSession passes [args, shadowcookie], the other requests the
\* arguments alone
RpcCookie(c, k) == IF c = NX_CMD_ATTACHSESSION THEN k ELSE NoCookie

\* NxSessionManager.LoadSession: the record file, NoRecord if there is none
LoadSession(s) == IF s \in AllSids THEN nodes[s].sup.disk ELSE NoRecord

\* mutant: the record is returned whoever owns it
LoadSessionForUser_AnyOwner(s, u) == LoadSession(s)

\* NxSessionManager.LoadSessionForUser
LoadSessionForUser(s, u) ==
  LET r == LoadSession(s) IN
    IF r # NoRecord /\ RecordOwner(s) = u THEN r ELSE NoRecord

\* _GetNodeClient(sessid, retry): the retry argument of command c
Retries(c) == c # NX_CMD_RESTORESESSION

\* the status lines of the agent: the lines that change what a poll reads
NodeLines == { l \in AgentLines : IsStatusLine(l) }

bkeep == <<cmd, sid, out, trace, todo, now, delay, got, nxagent_port, ready,
           relay, ncmds, pc, raised>>

\* the daemon has bound its socket
NodeListen(s) ==
  /\ nodes[s].phase = "forked"
  /\ nodes' = [nodes EXCEPT ![s].phase = "listening"]
  /\ UNCHANGED <<bkeep, nlines, tried, shadowcookie, avars, nvars>>

\* SessionRunner.__XAuthDone: the agent is started, or the daemon quits
XAuthDone(s) ==
  /\ nodes[s].phase = "xauth"
  /\ \/ nodes' = [nodes EXCEPT ![s].phase = "agent",
                               ![s].sup.agent_pid = SpawnPid]
     \/ nodes' = [nodes EXCEPT ![s].phase = "gone"]
  /\ UNCHANGED <<bkeep, nlines, tried, shadowcookie, avars, nvars>>

\* a status line of the agent of session s reaches its supervisor
NodeLine(s) ==
  /\ nodes[s].phase = "agent"
  /\ nlines < MaxLines
  /\ nlines' = nlines + 1
  /\ \E line \in NodeLines :
       nodes' = [nodes EXCEPT ![s].sup =
                   Exec(nodes[s].sup, HandleStderrLine(line, nodes[s].sup))]
  /\ UNCHANGED <<bkeep, tried, shadowcookie, avars, nvars>>

\* SessionRunner.__NxAgentDone: the agent has exited, the daemon quits
NxAgentDone(s) ==
  /\ nodes[s].phase = "agent"
  /\ nodes' = [nodes EXCEPT ![s].phase = "gone"]
  /\ UNCHANGED <<bkeep, nlines, tried, shadowcookie, avars, nvars>>

(* --------------------------- the protocol loop ------------------------- *)
\* NxServer.SendBanner
SendBanner ==
  /\ pc = "start"
  /\ out' = <<103>>
  /\ pc' = "prompt"
  /\ UNCHANGED raised
  /\ UNCHANGED <<nodes, cmd, sid, trace, todo, now, delay, got, nxagent_port,
                 ready, relay, ncmds, nlines, tried, shadowcookie, avars, nvars>>

\* NxServerBase.Start: the prompt of the next turn
Prompt ==
  /\ pc = "prompt"
  /\ out' = <<105>>
  /\ pc' = "read"
  /\ cmd' = NoCmd
  /\ sid' = NoSid
  /\ trace' = <<>>
  /\ todo' = <<>>
  /\ got' = NoRecord
  /\ now' = 0
  /\ delay' = RETRY_START
  /\ tried' = <<>>
  /\ shadowcookie' = NoCookie
  /\ UNCHANGED raised
  /\ UNCHANGED <<nodes, nxagent_port, ready, relay, ncmds, nlines, avars, nvars>>

\* ReadLine: the client has closed the connection
ReadEof ==
  /\ pc = "read"
  /\ Quit(out)
  /\ UNCHANGED <<nodes, cmd, sid, now, delay, got, nxagent_port, ready, relay,
                 ncmds, nlines, tried, shadowcookie, avars, nvars>>

\* ServerCommandHandler.__call__ up to the dispatch
HandleLine(line) ==
  LET o == out \o <<PLAIN>> IN
    IF line.cmd \in {NX_CMD_LOGIN, NX_CMD_HELLO, NX_CMD_SET}
      THEN ProtocolError(o, 554, FALSE) /\ cmd' = line
    ELSE IF line.cmd = NX_CMD_BYE THEN Quit(o) /\ cmd' = line
    ELSE IF line.cmd \in ParamCmds
      THEN /\ out' = o
           /\ raised' = ""
           /\ cmd' = line
           /\ todo' = Handler(line.cmd)
           /\ pc' = "run"
           /\ UNCHANGED trace
    ELSE ProtocolError(o, 503, FALSE) /\ cmd' = line

\* NxServerBase.Start: a line is read; an empty one is ignored
ReadLine ==
  /\ pc = "read"
  /\ ncmds < MaxCmds
  /\ ncmds' = ncmds + 1
  /\ \E line \in ClientLines \cup {NoCmd} :
       IF line = NoCmd
         THEN pc' = "prompt" /\ raised' = "" /\ UNCHANGED <<out, cmd, trace, todo>>
         ELSE HandleLine(line)
  /\ UNCHANGED <<nodes, sid, now, delay, got, nxagent_port, ready, relay, nlines, tried, shadowcookie, avars, nvars>>

(* ------------------------ the handlers' statements --------------------- *)
\* _GetParameters: the arguments, or a prompt for them if there are none
GetParameters ==
  /\ At("params")
  /\ IF cmd.params # NoParams THEN Advance(out)
     ELSE /\ out' = out \o <<106>>
          /\ UNCHANGED raised
          /\ pc' = "readparams"
          /\ UNCHANGED <<trace, todo>>
  /\ UNCHANGED <<nodes, cmd, sid, now, delay, got, nxagent_port, ready, relay,
                 ncmds, nlines, tried, shadowcookie, avars, nvars>>

\* _GetParameters: the line read after the prompt, an empty line written
\* whatever was read
ReadParameters ==
  /\ pc = "readparams"
  /\ \/ /\ Quit(out \o <<PLAIN>>)
        /\ UNCHANGED <<cmd, ncmds>>
     \/ /\ ncmds < MaxCmds
        /\ ncmds' = ncmds + 1
        /\ \E q \in ParamLines \cup {NoParams} :
             cmd' = [cmd EXCEPT !.params = q]
        /\ Advance(out \o <<PLAIN>>)
  /\ UNCHANGED <<nodes, sid, now, delay, got, nxagent_port, ready, relay, nlines, tried, shadowcookie, avars, nvars>>

\* protocol.ParseParameters
Parse ==
  /\ At("parse")
  /\ IF cmd.params.form = "bad" THEN ProtocolError(out, 597, FALSE)
     ELSE Advance(out)
  /\ UNCHANGED <<nodes, cmd, sid, now, delay, got, nxagent_port, ready, relay,
                 ncmds, nlines, tried, shadowcookie, avars, nvars>>

\* _AttachSession and _RestoreSession: parsed_params["id"]
RequireId ==
  /\ At("shadowid") \/ At("restoreid")
  /\ IF cmd.params.id = NoSid THEN ProtocolError(out, 500, FALSE)
     ELSE Advance(out)
  /\ UNCHANGED <<nodes, cmd, sid, now, delay, got, nxagent_port, ready, relay,
                 ncmds, nlines, tried, shadowcookie, avars, nvars>>

\* _RestoreSession: LoadSessionForUser
LoadForUser ==
  /\ At("load")
  /\ IF LoadSessionForUser(cmd.params.id, USERNAME) = NoRecord
       THEN ProtocolError(out, 500, FALSE) /\ UNCHANGED sid
       ELSE Advance(out) /\ sid' = cmd.params.id
  /\ UNCHANGED <<nodes, cmd, now, delay, got, nxagent_port, ready, relay,
                 ncmds, nlines, tried, shadowcookie, avars, nvars>>

\* _AttachSession: _GetNodeClient(shadowid, False)
ShadowConnect ==
  /\ At("shadowconnect")
  /\ IF Connectable(nodes[cmd.params.id]) THEN Advance(out)
     ELSE InternalError(out)
  /\ tried' = Append(tried, Contact("connect", cmd.params.id, FALSE, NoCookie))
  /\ UNCHANGED <<nodes, cmd, sid, now, delay, got, nxagent_port, ready, relay,
                 ncmds, nlines, shadowcookie, avars, nvars>>

\* _AttachSession: GetShadowCookie
ShadowRpc ==
  /\ At("shadowrpc")
  /\ IF SendRequest(nodes[cmd.params.id], "getshadowcookie", cmd.params).ok
       THEN Advance(out) /\ shadowcookie' = ShadowCookie(cmd.params.id)
       ELSE InternalError(out) /\ UNCHANGED shadowcookie
  /\ tried' = Append(tried, Contact("getshadowcookie", cmd.params.id, FALSE,
                                    NoCookie))
  /\ UNCHANGED <<nodes, cmd, sid, now, delay, got, nxagent_port, ready, relay,
                 ncmds, nlines, avars, nvars>>

\* NxSessionManager.CreateSessionID: a directory for an id that has none;
\* it gives up when every try hits an existing directory
CreateSessionID ==
  /\ At("create")
  /\ \/ \E s \in Sids :
          /\ nodes[s].phase = "none"
          /\ nodes' = [nodes EXCEPT ![s].phase = "dir"]
          /\ sid' = s
          /\ Advance(out)
     \/ /\ \E s \in Sids : nodes[s].phase # "none"
        /\ InternalError(out)
        /\ UNCHANGED <<nodes, sid>>
  /\ UNCHANGED <<cmd, now, delay, got, nxagent_port, ready, relay, ncmds, nlines, tried, shadowcookie, avars, nvars>>

\* node.StartNodeDaemon
StartNodeDaemon ==
  /\ At("daemon")
  /\ nodes' = [nodes EXCEPT ![sid].phase = "forked"]
  /\ Advance(out)
  /\ UNCHANGED <<cmd, sid, now, delay, got, nxagent_port, ready, relay, ncmds,
                 nlines, tried, shadowcookie, avars, nvars>>

\* _GetNodeClient(sessid, retry): with retry the broker gives up after
\* _RETRY_TIMEOUT, without it at the first refusal
ConnectNode ==
  /\ At("connect")
  /\ IF Connectable(nodes[sid]) THEN Advance(out) ELSE InternalError(out)
  /\ tried' = Append(tried, Contact("connect", sid, Retries(cmd.cmd), NoCookie))
  /\ UNCHANGED <<nodes, cmd, sid, now, delay, got, nxagent_port, ready, relay,
                 ncmds, nlines, shadowcookie, avars, nvars>>

\* StartSession, AttachSession, RestoreSession: the request and its reply
Rpc ==
  /\ At("rpc")
  /\ LET r == SendRequest(nodes[sid], cmd.cmd, cmd.params) IN
       /\ nodes' = [nodes EXCEPT ![sid] = r.node]
       /\ IF r.ok THEN Advance(out) ELSE ProtocolError(out, 500, TRUE)
  /\ tried' = Append(tried, Contact(cmd.cmd, sid, FALSE, RpcCookie(cmd.cmd,
                                                                   shadowcookie)))
  /\ UNCHANGED <<cmd, sid, now, delay, got, nxagent_port, ready, relay, ncmds,
                 nlines, shadowcookie, avars, nvars>>

(* --------------------- waiting for the session, relay ------------------ *)
\* the budget of _ConnectToSession in ticks
Timeout(c) ==
  TicksPerSecond * (IF c = NX_CMD_RESTORESESSION THEN SESSION_RESTORE_TIMEOUT
                    ELSE SESSION_START_TIMEOUT)

\* utils.Retry: delay *= factor, the factor being 1.5
Grow(d) == (d * 3) \div 2

\* _CheckForSessionReady on the record r that LoadSession returned
CheckForSessionReady(r) ==
  IF r # NoRecord /\ r.state = SESS_STATE_WAITING THEN "ready"
  ELSE IF r # NoRecord
            /\ r.state \in {SESS_STATE_TERMINATING, SESS_STATE_TERMINATED}
    THEN "abort"
  ELSE "again"

\* mutant: the budget never expires
Expired_Never(t, c) == FALSE

\* utils.Retry: time.time() > end_time
Expired(t, c) == t > Timeout(c)

\* _WaitForSessionReady: one round of utils.Retry, which is the call of
\* _CheckForSessionReady, the test of the clock and the sleep
Poll ==
  /\ At("wait")
  /\ LET r == LoadSession(sid)
         res == CheckForSessionReady(r) IN
       IF res = "ready"
         THEN /\ got' = r
              /\ Advance(out)
              /\ UNCHANGED <<now, delay>>
       ELSE IF res = "abort" \/ Expired(now, cmd.cmd)
         THEN /\ Quit(out \o <<500>>)
              /\ UNCHANGED <<got, now, delay>>
       ELSE /\ now' = now + delay
            /\ delay' = IF delay < RETRY_LIMIT THEN Grow(delay) ELSE delay
            /\ UNCHANGED <<got, out, pc, trace, todo, raised>>
  /\ UNCHANGED <<nodes, cmd, sid, nxagent_port, ready, relay, ncmds, nlines, tried, shadowcookie, avars, nvars>>

\* mutant: the port of the first session that became ready is kept
StorePort_KeepFirst(old, r) == IF old = None THEN r.port ELSE old

\* _ConnectToSession: self._ctx.nxagent_port = sess.port
StorePort(old, r) == r.port

\* _ConnectToSession after the wait: the details, 710, the port
WriteSessionInfo ==
  /\ At("info")
  /\ Advance(out \o SessionInfoCodes \o <<710>>)
  /\ nxagent_port' = StorePort(nxagent_port, got)
  /\ ready' = Append(ready, Ready(sid, got.port))
  /\ UNCHANGED <<nodes, cmd, sid, now, delay, got, relay, ncmds, nlines, tried, shadowcookie, avars, nvars>>

\* utils.FormatTable: the header, the dashes and a row per session
TableLines(n) == [i \in 1..(n + 2) |-> PLAIN]

\* _ListSession: the sessions of the user that have a record
ListSession ==
  /\ At("list")
  /\ Advance(out \o <<127>>
               \o TableLines(Cardinality({s \in AllSids :
                   LoadSessionForUser(s, USERNAME) # NoRecord}))
               \o <<PLAIN, 148>>)
  /\ UNCHANGED <<nodes, cmd, sid, now, delay, got, nxagent_port, ready, relay,
                 ncmds, nlines, tried, shadowcookie, avars, nvars>>

\* NxServerProgram.Run after Start: netcat for the stored port, if any
RelayTarget(port) ==
  IF port = None THEN NoRelay ELSE [host |-> "localhost", port |-> port]

RunNetcat ==
  /\ pc = "ended"
  /\ relay' = RelayTarget(nxagent_port)
  /\ pc' = "exit"
  /\ UNCHANGED <<nodes, cmd, sid, out, trace, todo, now, delay, got, raised,
                 nxagent_port, ready, ncmds, nlines, tried, shadowcookie, avars, nvars>>

\* NxServerProgram.Run: a new context, an empty store, no supervisor of
\* its own
InitBroker ==
  /\ BrokerAt("start")
  /\ sess = NoRecord
  /\ disk = NoRecord
  /\ want_restore = FALSE
  /\ agent_pid = None
  /\ watchdog_pid = None
  /\ lastop = [op |-> "init", line |-> NoLine, old |-> NoSup, from |-> ""]
  /\ eff = <<>>
  /\ restore_from = ""
  /\ runner = NoRunner
  /\ login = NoLogin
  /\ auth = NoAuth
  /\ store = NoStore

NextBroker ==
  \/ SendBanner
  \/ Prompt
  \/ ReadEof
  \/ ReadLine
  \/ GetParameters
  \/ ReadParameters
  \/ Parse
  \/ RequireId
  \/ LoadForUser
  \/ ShadowConnect
  \/ ShadowRpc
  \/ CreateSessionID
  \/ StartNodeDaemon
  \/ ConnectNode
  \/ Rpc
  \/ Poll
  \/ WriteSessionInfo
  \/ ListSession
  \/ RunNetcat
  \/ \E s \in Sids : NodeListen(s)
  \/ \E s \in Sids : XAuthDone(s)
  \/ \E s \in Sids : NodeLine(s)
  \/ \E s \in Sids : NxAgentDone(s)

\* the broker is a sequential program that keeps running: the sleep of
\* utils.Retry returns and the next round is made
SpecBroker == InitBroker /\ [][NextBroker]_vars /\ WF_vars(Poll)

(* ------------------- reading the broker's last command ----------------- *)
\* where step x stands in the steps done so far, 0 if it was not done
Pos(x) == IF \E i \in DOMAIN trace : trace[i] = x
            THEN CHOOSE i \in DOMAIN trace : trace[i] = x
            ELSE 0

\* step a was done, and before step b if that was done too
DoneBefore(a, b) == Pos(b) > 0 => (Pos(a) > 0 /\ Pos(a) < Pos(b))

\* the coded lines of the 7xx range written since the prompt
SessionLines == SelectSeq(out, LAMBDA c : c >= 700 /\ c < 800)

Wrote(c) == \E i \in DOMAIN out : out[i] = c

Last(q) == q[Len(q)]

\* the budget of the command in ticks, as the specification gives it
Budget == TicksPerSecond * (IF cmd.cmd = NX_CMD_RESTORESESSION THEN 60 ELSE 30)

\* the broker has made a round of its wait
PollStep == At("wait") /\ <<pc, todo, now, out>>' # <<pc, todo, now, out>>

(* ---------------------------------------------------------------------- *)
\* C8: startsession allocates the id, starts the daemon, connects to its
\* socket, issues the start RPC and polls the record, in this order; the
\* session-info lines 700, 705, 703, 701, 706, 704, 728, 707, 708 and then
\* 710 are written in that order after a poll has read the record in state
\* waiting, and no line of them is written otherwise.
C8_StartOrderAndInfoAfterWaiting ==
  /\ cmd.cmd = NX_CMD_STARTSESSION =>
       /\ DoneBefore("create", "daemon")
       /\ DoneBefore("daemon", "connect")
       /\ DoneBefore("connect", "rpc")
       /\ DoneBefore("rpc", "wait")
       /\ DoneBefore("wait", "info")
       /\ Pos("create") > 0 => sid \in Sids /\ nodes[sid].phase # "none"
       /\ Pos("daemon") > 0 => nodes[sid].phase \notin {"none", "dir"}
       /\ Pos("rpc") > 0 => nodes[sid].sup.disk # NoRecord
  /\ SessionLines # <<>> =>
       /\ SessionLines = <<700, 705, 703, 701, 706, 704, 728, 707, 708, 710>>
       /\ DoneBefore("wait", "info") /\ Pos("info") > 0
       /\ got.state = SESS_STATE_WAITING
  /\ Pos("info") = 0 => SessionLines = <<>>

\* a startsession went through all its steps and announced the session
C8_Witness ==
  /\ cmd.cmd = NX_CMD_STARTSESSION
  /\ Wrote(710)
  /\ trace = <<"params", "parse", "create", "daemon", "connect", "rpc", "wait",
               "info">>
  /\ now > 0

(* ---------------------------------------------------------------------- *)
\* C9: the wait for readiness always ends. A round that reads the record in
\* state waiting returns it; a round that reads terminating or terminated
\* writes 500 and ends the connection; a round made after the budget (30 s
\* for start and attach, 60 s for restore) has expired writes 500 and ends
\* the connection; no 710 is written in the two failures; any other round
\* sleeps and the wait goes on.
C9_WaitAlwaysEnds ==
  /\ [][PollStep =>
          LET r == LoadSession(sid) IN
            IF r.state = SESS_STATE_WAITING
              THEN /\ got' = r
                   /\ todo' = Tail(todo)
                   /\ out' = out
            ELSE IF \/ r.state \in {SESS_STATE_TERMINATING,
                                    SESS_STATE_TERMINATED}
                    \/ now > Budget
              THEN /\ out' = out \o <<500, 999>>
                   /\ pc' = "ended"
                   /\ ~Wrote(710)'
            ELSE /\ At("wait")'
                 /\ now' > now
                 /\ out' = out]_vars
  /\ (At("wait") ~> ~At("wait"))

\* a restoresession waited until its budget of 60 s had expired and failed
C9_Witness ==
  /\ cmd.cmd = NX_CMD_RESTORESESSION
  /\ pc = "ended"
  /\ todo # <<>> /\ Head(todo) = "wait"
  /\ now > Budget
  /\ LoadSession(sid).state \notin {SESS_STATE_TERMINATING, SESS_STATE_TERMINATED}
  /\ Len(out) >= 2 /\ SubSeq(out, Len(out) - 1, Len(out)) = <<500, 999>>

(* ---------------------------------------------------------------------- *)
\* C10: the relay is spawned only after the command loop has ended and only
\* if a start, attach or restore of the connection announced a session with
\* 710; it targets localhost and the port read from the record of the last
\* session that was announced; when none was announced the broker exits
\* without a relay.
C10_RelayForLastReadySession ==
  /\ relay # NoRelay =>
       /\ pc = "exit"
       /\ ready # <<>>
  /\ pc = "exit" =>
       relay = IF ready = <<>> THEN NoRelay
               ELSE [host |-> "localhost", port |-> Last(ready).port]
  /\ Wrote(710) =>
       /\ ready # <<>>
       /\ Last(ready) = [sid |-> sid, port |-> got.port]
       /\ got.port \in Ports
  /\ Len(ready) <= ncmds

\* two sessions were announced with different ports and the relay was
\* spawned for the second
C10_Witness ==
  /\ pc = "exit"
  /\ Len(ready) = 2
  /\ ready[1].port # ready[2].port
  /\ relay = [host |-> "localhost", port |-> ready[2].port]

(* ---------------------------------------------------------------------- *)
\* the current command is c and its parameters have been parsed
Parsed(c) == cmd.cmd = c /\ Pos("parse") > 0

\* the handler has stopped with an error right after the steps done
StoppedAfter(t) == trace = t /\ pc # "run"

\* C11: restoresession without an id is answered with 500; when the record
\* of the id is absent or belongs to another user the answer is 500, no
\* daemon is connected to and no request is sent; otherwise the broker
\* connects to the session's socket without retry, then sends the restore
\* request, and only then waits for the session.
C11_RestoreChecksBeforeContact ==
  Parsed(NX_CMD_RESTORESESSION) =>
    LET id == cmd.params.id IN
      IF id = NoSid
        THEN /\ tried = <<>>
             /\ Pos("restoreid") = 0
             /\ pc # "run" => Last(out) = 500
      ELSE IF nodes[id].sup.disk = NoRecord \/ id \in ForeignSids
        THEN /\ tried = <<>>
             /\ Pos("load") = 0
             /\ Pos("restoreid") > 0 /\ pc # "run" => Last(out) = 500
      ELSE /\ Len(tried) <= 2
           /\ Len(tried) >= 1 =>
                tried[1] = [op |-> "connect", sid |-> id, retry |-> FALSE,
                            cookie |-> NoCookie]
           /\ Len(tried) = 2 =>
                tried[2] = [op |-> NX_CMD_RESTORESESSION, sid |-> id,
                            retry |-> FALSE, cookie |-> NoCookie]
           /\ DoneBefore("connect", "rpc")
           /\ DoneBefore("rpc", "wait")
           /\ At("wait") \/ Pos("wait") > 0 => Len(tried) = 2

\* a restoresession for the other user's session has been refused
C11_Witness ==
  /\ cmd.cmd = NX_CMD_RESTORESESSION
  /\ cmd.params.id \in ForeignSids
  /\ StoppedAfter(<<"params", "parse", "restoreid">>)
  /\ out = <<105, PLAIN, 500>>
  /\ tried = <<>>

(* ---------------------------------------------------------------------- *)
\* the sessions that have a directory, and those whose daemon was started
Dirs == { s \in AllSids : nodes[s].phase # "none" }

Daemons == { s \in AllSids : nodes[s].phase \notin {"none", "dir"} }

\* C12: attachsession connects to the daemon of the target session and
\* asks it for the shadow cookie, and only then allocates the new id and
\* starts the new daemon; the attach request carries the returned cookie.
\* As long as no cookie was returned (the id is missing, the target cannot
\* be reached, its daemon refuses) no directory is created and no daemon
\* is started.
C12_AttachCookieFirst ==
  [][/\ cmd.cmd = NX_CMD_ATTACHSESSION /\ shadowcookie = NoCookie =>
          Dirs' = Dirs /\ Daemons' = Daemons
     /\ (Parsed(NX_CMD_ATTACHSESSION) =>
          /\ DoneBefore("shadowconnect", "shadowrpc")
          /\ DoneBefore("shadowrpc", "create")
          /\ DoneBefore("create", "daemon")
          /\ DoneBefore("daemon", "connect")
          /\ DoneBefore("connect", "rpc")
          /\ Pos("shadowrpc") > 0 =>
               /\ shadowcookie = <<"cookie", cmd.params.id>>
               /\ SubSeq(tried, 1, 2) =
                    <<[op |-> "connect", sid |-> cmd.params.id,
                       retry |-> FALSE, cookie |-> NoCookie],
                      [op |-> "getshadowcookie", sid |-> cmd.params.id,
                       retry |-> FALSE, cookie |-> NoCookie]>>
          /\ cmd.params.id = NoSid => tried = <<>> /\ Pos("create") = 0
          /\ \A i \in DOMAIN tried :
               tried[i].op = NX_CMD_ATTACHSESSION =>
                 /\ i = 4
                 /\ tried[i].cookie = <<"cookie", cmd.params.id>>
                 /\ tried[i].sid = sid
                 /\ sid # cmd.params.id)']_vars

\* an attachsession got the cookie of its target, set up a new session with
\* it and announced that session
C12_Witness ==
  /\ cmd.cmd = NX_CMD_ATTACHSESSION
  /\ Len(tried) = 4
  /\ tried[4] = [op |-> NX_CMD_ATTACHSESSION, sid |-> sid, retry |-> FALSE,
                 cookie |-> CookieOf(cmd.params.id)]
  /\ Wrote(710)

(* ------------------- node.py: the steps of SessionRunner --------------- *)
\* the runner starts child c
StartChild(r, c) ==
  [r EXCEPT ![c] = Running, !.started = Append(r.started, c)]

\* __Quit: sys.exit(0) ends the daemon
RunnerQuit(r) == [r EXCEPT !.quit = TRUE]

\* __TerminateNxAgent
TerminateNxAgent(r) ==
  IF r.nxagent.st = "running" THEN [r EXCEPT !.terminated = TRUE] ELSE r

\* the record and supervisor of a session the daemon has just created
InitNode ==
  /\ sess \in InitSess
  /\ disk = InitDisk(sess)
  /\ want_restore = FALSE
  /\ agent_pid = None
  /\ watchdog_pid = None
  /\ lastop = [op |-> "init", line |-> NoLine,
               old |-> Sup(sess, NoRecord, FALSE, None, None), from |-> ""]
  /\ eff = <<>>
  /\ restore_from = ""
  /\ BrokerAt("off")
  /\ runner \in { [NoRunner EXCEPT !.command = c] : c \in BOOLEAN }
  /\ login = NoLogin
  /\ auth = NoAuth
  /\ store = NoStore

akeep == <<sess, disk, want_restore, agent_pid, watchdog_pid, lastop, eff,
           restore_from>>

\* SessionRunner.Start: xauth is started
RunnerStart ==
  /\ ~runner.begun
  /\ runner' = [StartChild(runner, "xauth") EXCEPT !.begun = TRUE]
  /\ UNCHANGED <<akeep, bvars, login, xvars>>

\* mutant: the agent is started however xauth ended
XAuthDoneQuits_Never(c) == FALSE

\* __XAuthDone: whether the daemon quits instead of starting the agent
XAuthDoneQuits(c) == Failed(c)

\* xauth exits: __XAuthDone, then __StartNxAgent and NxAgentProgram.Start
RunnerXAuthDone ==
  /\ ~runner.quit /\ runner.xauth.st = "running"
  /\ \E e \in Exits :
       LET r == [runner EXCEPT !.xauth = Exited(e)] IN
         IF XAuthDoneQuits(r.xauth)
           THEN runner' = RunnerQuit(r) /\ UNCHANGED akeep
           ELSE /\ runner' = StartChild(r, "nxagent")
                /\ agent_pid' = SpawnPid
                /\ UNCHANGED <<sess, disk, want_restore, watchdog_pid, lastop,
                               eff, restore_from>>
  /\ UNCHANGED <<bvars, login, xvars>>

\* whether the handler emitted the display-ready signal
DisplayReady(ss) ==
  \E i \in DOMAIN ss : ss[i] = Emit(DISPLAY_READY_SIGNAL)

\* a line of the agent's stderr: _HandleStderrLine, and __DisplayReady ->
\* __StartXRdb when the handler emits the signal
RunnerAgentLine ==
  /\ ~runner.quit /\ runner.nxagent.st = "running"
  /\ nlines < MaxLines
  /\ nlines' = nlines + 1
  /\ \E line \in AgentLines :
       LET ss == HandleStderrLine(line, Cur) IN
         /\ Handle("line", line, ss)
         /\ runner' = IF DisplayReady(ss) THEN StartChild(runner, "xrdb")
                      ELSE runner
  /\ UNCHANGED <<bkeep, nodes, tried, shadowcookie, login, xvars>>

\* SessionRunner.Restore
RunnerRestore ==
  /\ ~runner.quit /\ runner.begun
  /\ IF runner.nxagent.st = "running"
       THEN Handle("restore", NoLine, Restore(Cur))
       ELSE Handle("restore", NoLine, <<Raise("GenericError")>>)
  /\ UNCHANGED <<runner, bvars, login, xvars>>

\* xrdb exits: __XRdbDone ignores how, __StartUserApp starts the command
\* unless the session has none
XRdbDone ==
  /\ ~runner.quit /\ runner.xrdb.st = "running"
  /\ \E e \in Exits :
       LET r == [runner EXCEPT !.xrdb = Exited(e)] IN
         runner' = IF r.command THEN StartChild(r, "userapp") ELSE r
  /\ UNCHANGED <<akeep, bvars, login, xvars>>

\* mutant: every session counts as usable
UsableSession_Always == TRUE

\* __UserAppDone: usable_session
UsableSession ==
  sess.state \in {SESS_STATE_STARTING, SESS_STATE_WAITING, SESS_STATE_RUNNING}

\* the user application exits: __UserAppDone
UserAppDone ==
  /\ ~runner.quit /\ runner.userapp.st = "running"
  /\ \E e \in Exits :
       LET r == [runner EXCEPT !.userapp = Exited(e)] IN
         runner' = IF UsableSession /\ Failed(r.userapp)
                     THEN StartChild(r, "nxdialog")
                     ELSE TerminateNxAgent(r)
  /\ UNCHANGED <<akeep, bvars, login, xvars>>

\* the error dialog exits: __NxDialogDone
NxDialogDone ==
  /\ ~runner.quit /\ runner.nxdialog.st = "running"
  /\ \E e \in Exits :
       runner' = TerminateNxAgent([runner EXCEPT !.nxdialog = Exited(e)])
  /\ UNCHANGED <<akeep, bvars, login, xvars>>

\* mutant: the daemon stays when the agent failed
NxAgentDoneQuits_CleanOnly(c) == ~Failed(c)

\* __NxAgentDone: whether the daemon quits
NxAgentDoneQuits(c) == TRUE

\* the agent exits: __NxAgentDone
RunnerAgentDone ==
  /\ ~runner.quit /\ runner.nxagent.st = "running"
  /\ \E e \in Exits :
       LET r == [runner EXCEPT !.nxagent = Exited(e)] IN
         runner' = IF NxAgentDoneQuits(r.nxagent) THEN RunnerQuit(r) ELSE r
  /\ UNCHANGED <<akeep, bvars, login, xvars>>

NextNode ==
  \/ RunnerStart
  \/ RunnerXAuthDone
  \/ RunnerAgentLine
  \/ RunnerRestore
  \/ XRdbDone
  \/ UserAppDone
  \/ NxDialogDone
  \/ RunnerAgentDone

SpecNode == InitNode /\ [][NextNode]_vars

(* ---------------------------------------------------------------------- *)
\* the order in which the runner starts its children
Pipeline == <<"xauth", "nxagent", "xrdb", "userapp", "nxdialog">>

IsPrefix(a, b) == Len(a) <= Len(b) /\ a = SubSeq(b, 1, Len(a))

Started(c) == runner[c].st # "none"

CleanExit(c) == runner[c].st = "exited" /\ ~Failed(runner[c])

\* child c is started by this step
Starts(c) == runner[c].st = "none" /\ runner'[c].st = "running"

\* the statement of C13 as the specification has it: every step after the
\* agent waits for a clean exit of the helper before it
C13_Original ==
  /\ IsPrefix(runner.started, Pipeline)
  /\ Started("nxagent") => CleanExit("xauth")
  /\ Started("xrdb") => Started("nxagent")
  /\ Started("userapp") => CleanExit("xrdb")

\* C13: the children are started in the order xauth, nxagent, xrdb, user
\* application.  The agent is started only after xauth has exited with
\* status 0 and no signal; xrdb is started while the agent runs (the agent
\* is not waited for); the user application is started by the exit of xrdb,
\* whatever its status or signal, and only for a session with a command.
C13_BringUpOrder ==
  [][/\ Starts("nxagent") =>
          runner.xauth.st = "running" /\ CleanExit("xauth")'
     /\ Starts("xrdb") =>
          runner.nxagent.st = "running" /\ runner'.nxagent.st = "running"
     /\ Starts("userapp") =>
          /\ runner.xrdb.st = "running" /\ runner'.xrdb.st = "exited"
          /\ runner.command
     /\ \A c \in {"xauth", "xrdb", "userapp", "nxdialog"} :
          runner[c].st = "exited" => runner'[c] = runner[c]
     /\ IsPrefix(runner'.started, Pipeline)]_vars

\* the user application runs although xrdb failed
C13_Witness ==
  /\ runner.userapp.st = "running"
  /\ runner.xrdb.st = "exited" /\ Failed(runner.xrdb)
  /\ runner.nxagent.st = "running"
  /\ runner.started = <<"xauth", "nxagent", "xrdb", "userapp">>

\* this step handles a line of the agent
LineStep == nlines' = nlines + 1

\* the statement of C14 as the specification has it: once the record has
\* left created, the display-ready event was emitted and xrdb was started
C14_Original == sess.state # SESS_STATE_CREATED => Started("xrdb")

\* C14: the display-ready event is emitted by the line that moves the record
\* from created to starting and by no other (a first transition out of
\* created into any other state emits nothing, and the record never returns
\* to created); the event starts xrdb, nothing else does, and the exit of
\* xrdb starts the user application.
C14_DisplayReadyOnStarting ==
  [][/\ LineStep =>
          (DisplayReady(eff') <=>
             /\ sess.state = SESS_STATE_CREATED
             /\ sess'.state = SESS_STATE_STARTING)
     /\ Starts("xrdb") <=> LineStep /\ DisplayReady(eff')
     /\ Starts("userapp") =>
          runner.xrdb.st = "running" /\ runner'.xrdb.st = "exited"
     /\ runner.xrdb.st = "running" /\ runner'.xrdb.st = "exited"
          /\ runner.command => Starts("userapp")
     /\ sess.state # SESS_STATE_CREATED => sess'.state # SESS_STATE_CREATED]_vars

\* the record went from created to waiting, and no xrdb was started
C14_Witness ==
  /\ lastop.op = "line" /\ lastop.old.sess.state = SESS_STATE_CREATED
  /\ sess.state = SESS_STATE_WAITING
  /\ ~DisplayReady(eff)
  /\ runner.nxagent.st = "running" /\ ~Started("xrdb")

\* C15: once the agent has exited the daemon has quit, whatever the agent's
\* exit status and the record's state; a daemon that quit before it started
\* the agent saw xauth fail; the daemon quits for no other reason.
C15_DaemonEndsWithAgent ==
  /\ runner.nxagent.st = "exited" => runner.quit
  /\ runner.quit /\ ~Started("nxagent") =>
       runner.xauth.st = "exited" /\ Failed(runner.xauth)
  /\ runner.quit => runner.nxagent.st # "running"
  /\ ~Started("nxagent") /\ runner.xauth.st = "exited" /\ Failed(runner.xauth)
       => runner.quit

\* the agent was killed by a signal while the session was running, and the
\* daemon has quit
C15_Witness ==
  /\ runner.nxagent = Child("exited", None, 15)
  /\ sess.state = SESS_STATE_RUNNING
  /\ runner.quit

(* ---------------------------------------------------------------------- *)
\* the codes of error lines
IsErrorCode(c) == c \in 400..599

\* this step ends the handling of a line by an exception
Raises ==
  /\ pc \in {"read", "readparams", "run"}
  /\ pc' \in {"prompt", "ended"}
  /\ raised' # ""

\* the text written by this step
Written == SubSeq(out', Len(out) + 1, Len(out'))

\* the same without the confirmation of the command, if this step wrote it
Answer == IF pc = "read" /\ Written # <<>> THEN Tail(Written) ELSE Written

\* C16: a non-fatal protocol error is answered with one error line and the
\* loop goes on to the next prompt; a fatal protocol error and any other
\* exception of the handler (which is answered as a fatal 500) are answered
\* with the error line followed by 999 and the loop ends; the loop never
\* ends on a failure without an error line.
C16_ErrorsAnswered ==
  [][Raises =>
       /\ SubSeq(out', 1, Len(out)) = out
       /\ raised' = "NxProtocolError" =>
            /\ Len(Answer) = 1 /\ IsErrorCode(Answer[1])
            /\ pc' = "prompt"
       /\ raised' \in {"fatal NxProtocolError", "Exception"} =>
            /\ Len(Answer) = 2 /\ IsErrorCode(Answer[1]) /\ Answer[2] = 999
            /\ pc' = "ended"
       /\ raised' = "Exception" => Answer[1] = 500
       /\ pc' = "ended" /\ raised' # "NxQuitServer" =>
            \E i \in DOMAIN Written : IsErrorCode(Written[i])]_vars

\* connecting to the new daemon failed: 500 and 999 were written and the
\* loop has ended
C16_Witness ==
  /\ raised = "Exception" /\ pc = "ended"
  /\ trace = <<"params", "parse", "create", "daemon">>
  /\ out = <<105, PLAIN, 500, 999>>

\* C17: whenever the loop is about to read a command line, the last thing
\* written is the prompt 105, which has no newline; the read position is
\* entered only by writing the prompt, and every read leaves it, so that no
\* two lines are read on one prompt -- also after an empty line, after a
\* command that was carried out and after a non-fatal error.
C17_PromptBeforeRead ==
  [][/\ pc' = "read" =>
          /\ out' = <<105>> /\ ~WriteNewline("", "None")
          /\ pc \in {"prompt", "read"}
     /\ pc = "read" /\ (ncmds' # ncmds \/ pc' = "ended") => pc' # "read"
     /\ ncmds' # ncmds => pc \in {"read", "readparams"}
     /\ pc = "prompt" => pc' \in {"prompt", "read"}]_vars

\* the second prompt, after a non-fatal error
C17_Witness ==
  /\ pc = "read" /\ out = <<105>>
  /\ raised = "NxProtocolError" /\ ncmds = 1

\* C19: in the broker the lines bye and quit are both answered with 999
\* and end the command loop.
C19_ByeAndQuitLeave ==
  [][pc = "read" /\ ncmds' # ncmds /\ cmd'.cmd \in {NX_CMD_BYE, NX_CMD_QUIT} =>
       /\ Last(out') = 999
       /\ pc' = "ended"]_vars

(* =============== nxserver_login.py: the login front-end ================ *)
\* ---- utils.ParseVersion, on strings as sequences of characters
DigitChars == <<"0", "1", "2", "3", "4", "5", "6", "7", "8", "9">>

IsDigit(c) == \E i \in DOMAIN DigitChars : DigitChars[i] = c

DigitValue(c) == (CHOOSE i \in DOMAIN DigitChars : DigitChars[i] = c) - 1

\* the separators both callers pass: ".-"
VersionSeps == {".", "-"}

\* _GetVersionSplitter: the parts between the separators
RECURSIVE SplitVersion(_, _)
SplitVersion(str, part) ==
  IF str = <<>> THEN <<part>>
  ELSE IF Head(str) \in VersionSeps THEN <<part>> \o SplitVersion(Tail(str), <<>>)
  ELSE SplitVersion(Tail(str), Append(part, Head(str)))

\* int(): the number a string of digits denotes, None for a ValueError
RECURSIVE IntOf(_, _)
IntOf(str, acc) ==
  IF str = <<>> THEN acc
  ELSE IF ~IsDigit(Head(str)) THEN None
  ELSE IntOf(Tail(str), acc * 10 + DigitValue(Head(str)))

ToInt(str) == IF str = <<>> THEN None ELSE IntOf(str, 0)

RECURSIVE Pow10(_)
Pow10(n) == IF n = 0 THEN 1 ELSE 10 * Pow10(n - 1)

\* constants.PROTOCOL_VERSION_DIGITS
PROTOCOL_VERSION_DIGITS == <<2, 2, 4>>

\* the sum of the digits after part idx
RECURSIVE TotalExp(_, _)
TotalExp(digits, idx) ==
  IF idx >= Len(digits) THEN 0
  ELSE digits[idx + 1] + TotalExp(digits, idx + 1)

\* the parts the splitter returns: at most count of them
VersionParts(version, count) ==
  LET all == SplitVersion(version, <<>>) IN
    SubSeq(all, 1, IF Len(all) < count THEN Len(all) ELSE count)

\* the value of part idx: 0 for a missing part
PartValue(parts, idx) ==
  IF idx > Len(parts) THEN 0 ELSE ToInt(parts[idx])

\* ParseVersion: if value > 10 ** exp: raise ValueError
PartFits(value, exp) == ~(value > Pow10(exp))

RECURSIVE SumParts(_, _, _)
SumParts(parts, digits, idx) ==
  IF idx > Len(digits) THEN 0
  ELSE Pow10(TotalExp(digits, idx)) * PartValue(parts, idx)
         + SumParts(parts, digits, idx + 1)

\* utils.ParseVersion: the number, None for a ValueError
ParseVersion(version, digits) ==
  LET parts == VersionParts(version, Len(digits)) IN
    IF \E i \in DOMAIN digits :
         \/ PartValue(parts, i) = None
         \/ ~PartFits(PartValue(parts, i), digits[i])
      THEN None
      ELSE SumParts(parts, digits, 1)

\* constants.DEFAULT_NX_PROTOCOL_VERSION
DEFAULT_NX_PROTOCOL_VERSION == <<"3", ".", "3", ".", "0">>

\* config.py: cfg.nx_protocol_version
NxProtocolVersion ==
  ParseVersion(DEFAULT_NX_PROTOCOL_VERSION, PROTOCOL_VERSION_DIGITS)

\* RE_PROTOCOL: "nxclient - version " and a version of digits and dots
MatchesProtocol(a) ==
  /\ a.client
  /\ a.ver # <<>>
  /\ \A i \in DOMAIN a.ver : IsDigit(a.ver[i]) \/ a.ver[i] = "."

\* ---- what the client sends
ClientVersions ==
  { <<"3", ".", "3", ".", "0">>, <<"3", ".", "3">>,
    <<"3", ".", "3", ".", "0", ".", "9">>, <<"0", "3", ".", "3", ".", "0">>,
    <<"3", ".", "4", ".", "0">>, <<"2", ".", "0", ".", "0">>,
    <<"3", ".", "2", ".", "1", "0", "0", "0", "0">>,
    <<"3", ".", ".", "0">>, <<"3", ".", "3", ".", "0", "a">>, <<>> }

HelloArgs ==
  { Args(c, v, "", "") : c \in BOOLEAN, v \in ClientVersions }

NX_VAR_AUTH_MODE == "auth_mode"
NX_VAR_SHELL_MODE == "shell_mode"
NX_AUTH_MODE_PASSWORD == "password"
NX_SHELL_MODE_SHELL == "shell"

SetArgs ==
  { Args(FALSE, <<>>, x, y) :
      x \in {"", NX_VAR_AUTH_MODE, NX_VAR_SHELL_MODE, "AUTH_MODE", "other"},
      y \in {"", NX_AUTH_MODE_PASSWORD, NX_SHELL_MODE_SHELL} }

\* str.lower on the strings above
Lower(x) == IF x = "AUTH_MODE" THEN "auth_mode" ELSE x

LoginLine(c, a) == [cmd |-> c, args |-> a]

LoginLines ==
  { LoginLine(NX_CMD_HELLO, a) : a \in HelloArgs }
    \cup { LoginLine(NX_CMD_SET, a) : a \in SetArgs }
    \cup { LoginLine(c, NoArgs) :
             c \in {NX_CMD_LOGIN, NX_CMD_QUIT, NX_CMD_BYE, NX_CMD_STARTSESSION,
                    NX_CMD_ATTACHSESSION, NX_CMD_LISTSESSION} }

Usernames == {"", USERNAME}

Passwords == {"", "right", "wrong"}

\* what the broker and the store are while the front-end runs
lkeep == <<nodes, sid, now, delay, got, nxagent_port, ready, relay, nlines,
           tried, shadowcookie, avars, runner, xvars>>

\* the handler returns, having written o in all
Return(o) ==
  /\ out' = o
  /\ pc' = "prompt"
  /\ raised' = ""
  /\ UNCHANGED <<trace, todo>>

\* ---- the handler
\* _Hello
Hello(a, o) ==
  IF ~MatchesProtocol(a)
    THEN ProtocolError(o, 500, TRUE) /\ login' = [login EXCEPT !.args = a]
  ELSE LET parsed == ParseVersion(a.ver, PROTOCOL_VERSION_DIGITS) IN
    IF parsed = None \/ parsed # NxProtocolVersion
      THEN ProtocolError(o, 500, TRUE) /\ login' = [login EXCEPT !.args = a]
      ELSE /\ Return(o \o <<134>>)
           /\ login' = [login EXCEPT !.protocol_version = parsed,
                                     !.accepted = a.ver, !.args = a]

\* _SetAuthMode, _SetShellMode
SetMode(value, wanted, o) ==
  IF value # "" /\ Lower(value) = wanted THEN Return(o)
  ELSE ProtocolError(o, 500, FALSE)

\* _Set, after its confirmation
Set(a, o) ==
  IF a.var = "" THEN ProtocolError(o \o <<500>>, 500, FALSE)
  ELSE IF Lower(a.var) = NX_VAR_AUTH_MODE
    THEN SetMode(a.value, NX_AUTH_MODE_PASSWORD, o)
  ELSE IF Lower(a.var) = NX_VAR_SHELL_MODE
    THEN SetMode(a.value, NX_SHELL_MODE_SHELL, o)
  ELSE ProtocolError(o, 500, FALSE)

\* LoginCommandHandler.__call__: the commands that raise NxNotBeforeLogin
NotBeforeLogin_OnlyBye == {NX_CMD_BYE}

NotBeforeLogin == {NX_CMD_BYE, NX_CMD_STARTSESSION, NX_CMD_ATTACHSESSION}

\* LoginCommandHandler.__call__
LoginHandleLine(line) ==
  LET o == out \o <<PLAIN>> IN
    /\ cmd' = [cmd |-> line.cmd, params |-> NoParams]
    /\ IF line.cmd = NX_CMD_SET
         THEN Set(line.args, o) /\ login' = [login EXCEPT !.args = line.args]
       ELSE IF line.cmd = NX_CMD_LOGIN
         THEN /\ out' = o
              /\ pc' = "login"
              /\ raised' = ""
              /\ UNCHANGED <<trace, todo, login>>
       ELSE IF line.cmd = NX_CMD_HELLO THEN Hello(line.args, o)
       ELSE IF line.cmd = NX_CMD_QUIT THEN Quit(o) /\ UNCHANGED login
       ELSE IF line.cmd \in NotBeforeLogin
         THEN ProtocolError(o, 554, FALSE) /\ UNCHANGED login
       ELSE ProtocolError(o, 503, FALSE) /\ UNCHANGED login

\* LoginServer.SendBanner
LoginSendBanner ==
  /\ pc = "start"
  /\ out' = <<PLAIN>>
  /\ pc' = "prompt"
  /\ UNCHANGED <<cmd, ncmds, raised, trace, todo, login, lkeep>>

\* NxServerBase.Start: a line is read; an empty one is ignored
LoginReadLine ==
  /\ pc = "read"
  /\ ncmds < MaxCmds
  /\ ncmds' = ncmds + 1
  /\ \/ /\ pc' = "prompt" /\ raised' = ""
        /\ UNCHANGED <<out, cmd, trace, todo, login>>
     \/ \E line \in LoginLines : LoginHandleLine(line)
  /\ UNCHANGED lkeep

\* _GetNxServerArgs
GetNxServerArgs(l, username) ==
  <<"nxserver",
    IF l.protocol_version = None THEN NxProtocolVersion
    ELSE l.protocol_version,
    "--", username>>

\* _Login: a process that does not run as nx executes nxserver at once
\* (execve does not return, or fails); otherwise the user name is asked for
LoginBegin ==
  /\ pc = "login"
  /\ IF ~login.nx
       THEN \/ /\ pc' = "exec"
               /\ login' = [login EXCEPT !.argv = GetNxServerArgs(login, USERNAME)]
               /\ UNCHANGED <<out, raised, trace, todo>>
            \/ InternalError(out) /\ UNCHANGED login
       ELSE /\ out' = out \o <<101>>
            /\ pc' = "username"
            /\ UNCHANGED <<raised, trace, todo, login>>
  /\ UNCHANGED <<cmd, ncmds, lkeep>>

\* _Login: the user name is read; the lines read by the handler are not
\* counted in ncmds
ReadUsername ==
  /\ pc = "username"
  /\ \/ Quit(out) /\ UNCHANGED login
     \/ \E u \in Usernames :
          /\ login' = [login EXCEPT !.username = u]
          /\ IF u = "" THEN Quit(out \o <<500, 500, 500, 500>>)
             ELSE /\ out' = out \o <<PLAIN, 102>>
                  /\ pc' = "password"
                  /\ UNCHANGED <<raised, trace, todo>>
  /\ UNCHANGED <<cmd, ncmds, lkeep>>

\* _Login: the password is read
ReadPassword ==
  /\ pc = "password"
  /\ \/ Quit(out) /\ UNCHANGED login
     \/ \E w \in Passwords :
          /\ login' = [login EXCEPT !.password = w]
          /\ IF w = "" THEN Quit(out \o <<500, 500>>)
             ELSE /\ out' = out \o <<PLAIN>>
                  /\ pc' = "auth"
                  /\ UNCHANGED <<raised, trace, todo>>
  /\ UNCHANGED <<cmd, ncmds, lkeep>>

\* what AuthenticateAndRun can do in _TryLogin: return once the client has
\* disconnected, raise AuthFailedError, raise another AuthError, or raise an
\* exception that is no AuthError (pexpect could not spawn the helper)
AuthResults == {"returned", "AuthFailedError", "AuthError", "Exception"}

\* _TryLogin's except clauses: what is written for an authenticator outcome
AuthAnswer_Always503(result) == IF result = "returned" THEN <<>> ELSE <<503>>

AuthAnswer(result) ==
  IF result = "AuthFailedError" THEN <<404>>
  ELSE IF result = "AuthError" THEN <<503>>
  ELSE <<>>

\* _TryLogin: the authenticator runs nxserver until the client disconnects,
\* or fails; whatever it did, NxQuietQuitServer is raised.  An exception
\* that is no AuthError is an internal error.
TryLogin ==
  /\ pc = "auth"
  /\ \E result \in AuthResults :
       /\ result = "returned" => login.password = "right"
       /\ result = "AuthFailedError" => login.password # "right"
       /\ login' = [login EXCEPT
                      !.result = result,
                      !.argv = IF result = "returned"
                                 THEN GetNxServerArgs(login, login.username)
                                 ELSE @]
       /\ IF result = "Exception" THEN InternalError(out)
          ELSE LeaveQuietly(out \o AuthAnswer(result))
  /\ UNCHANGED <<cmd, ncmds, lkeep>>

\* NxServerLoginProgram.Run: Start has returned
LoginExit ==
  /\ pc = "ended"
  /\ pc' = "exit"
  /\ UNCHANGED <<out, cmd, ncmds, raised, trace, todo, login, lkeep>>

InitLogin ==
  /\ BrokerAt("start")
  /\ sess = NoRecord
  /\ disk = NoRecord
  /\ want_restore = FALSE
  /\ agent_pid = None
  /\ watchdog_pid = None
  /\ lastop = [op |-> "init", line |-> NoLine, old |-> NoSup, from |-> ""]
  /\ eff = <<>>
  /\ restore_from = ""
  /\ runner = NoRunner
  /\ login \in { [NoLogin EXCEPT !.nx = b] : b \in BOOLEAN }
  /\ auth = NoAuth
  /\ store = NoStore

NextLogin ==
  \/ LoginSendBanner
  \/ Prompt
  \/ ReadEof
  \/ LoginReadLine
  \/ LoginBegin
  \/ ReadUsername
  \/ ReadPassword
  \/ TryLogin
  \/ LoginExit

SpecLogin == InitLogin /\ [][NextLogin]_vars

(* ---------------------------------------------------------------------- *)
\* this step ends the protocol loop
Ends == pc \notin {"ended", "exit"} /\ pc' = "ended"

Count999(q) == Cardinality({ i \in DOMAIN q : q[i] = 999 })

\* C18: when the loop ends by NxQuitServer (a quit line, an empty read, an
\* empty user name or password, a fatal error) 999 is written exactly once
\* and is the last output; when it ends by NxQuietQuitServer, after the
\* authenticator has run, the loop writes nothing (the handler's 404 or 503
\* is the last output); 999 is written by no other step, and once the loop
\* has ended nothing is written and no line is read.
C18_ByeOnceOrSilence ==
  [][/\ Ends /\ raised' # "NxQuietQuitServer" =>
          Last(out') = 999 /\ Count999(out') = 1
     /\ Ends /\ raised' = "NxQuietQuitServer" =>
          /\ pc = "auth"
          /\ Count999(out') = 0
          /\ Written \in {<<>>, <<404>>, <<503>>}
     /\ Count999(out') # Count999(out) => Ends \/ pc' = "read"
     /\ pc \in {"ended", "exit"} =>
          /\ out' = out /\ ncmds' = ncmds /\ login' = login
          /\ pc' \in {"ended", "exit"}]_vars

\* the authenticator refused the password: 404 is the last output
C18_Witness ==
  /\ raised = "NxQuietQuitServer" /\ pc = "exit"
  /\ out = <<105, PLAIN, 101, PLAIN, 102, PLAIN, 404>>

\* the numbers of the first three parts of a version, 0 for a missing part
VersionNumbers(version) ==
  LET parts == VersionParts(version, 3) IN
    [i \in 1..3 |-> PartValue(parts, i)]

\* the version is made of numbers and they are those of the server's
\* configured version
SameVersion(a) ==
  /\ MatchesProtocol(a)
  /\ \A i \in 1..3 : VersionNumbers(a.ver)[i] # None
  /\ VersionNumbers(a.ver) = VersionNumbers(DEFAULT_NX_PROTOCOL_VERSION)

\* C20: hello is answered with 134 and the accepted version, and the loop
\* goes on, if and only if the client's version parses and is the server's
\* configured version; otherwise it is answered with 500 and 999 and the
\* loop ends.
C20_HelloAcceptedIffSameVersion ==
  [][pc = "read" /\ ncmds' # ncmds /\ cmd'.cmd = NX_CMD_HELLO =>
       IF SameVersion(login'.args)
         THEN /\ out' = out \o <<PLAIN, 134>>
              /\ pc' = "prompt"
              /\ login'.accepted = login'.args.ver
         ELSE /\ out' = out \o <<PLAIN, 500, 999>>
              /\ pc' = "ended"]_vars

(* ------------- the login front-end: hello, quit, the authenticator ------ *)
\* this step reads a line whose command is c
ReadsCommand(c) == pc = "read" /\ ncmds' # ncmds /\ cmd' # cmd /\ cmd'.cmd = c

\* the same, for a line that is not ignored
ReadsLine == pc = "read" /\ Written # <<>>

\* C21: hello is accepted once per connection: a hello read after a hello
\* was answered with 134 is not answered with 134 again.
C21_HelloOnce ==
  [][(ReadsLine /\ cmd'.cmd = NX_CMD_HELLO /\ login.accepted # <<>>)
       => ~(134 \in { Written[i] : i \in DOMAIN Written })]_vars

\* the statement of C22 as the specification has it: quit ends the loop and
\* nothing more is written; bye, startsession and attachsession are answered
\* with 554 and the loop goes on
C22_Original ==
  [][ReadsLine =>
       /\ cmd'.cmd = NX_CMD_QUIT => (Answer = <<>> /\ pc' = "ended")
       /\ cmd'.cmd \in {NX_CMD_BYE, NX_CMD_STARTSESSION, NX_CMD_ATTACHSESSION}
            => (Answer = <<554>> /\ pc' = "prompt")]_vars

\* C22: before login quit is answered with 999 and ends the loop, with
\* nothing written after it; bye, startsession and attachsession are each
\* answered with 554 and the loop goes on to the next prompt.
C22_QuitAndNotBeforeLogin ==
  [][/\ ReadsLine =>
          /\ cmd'.cmd = NX_CMD_QUIT
               => (Answer = <<999>> /\ pc' = "ended" /\ raised' = "NxQuitServer")
          /\ cmd'.cmd \in {NX_CMD_BYE, NX_CMD_STARTSESSION,
                           NX_CMD_ATTACHSESSION}
               => (Answer = <<554>> /\ pc' = "prompt")
     /\ (pc \in {"ended", "exit"} /\ cmd.cmd = NX_CMD_QUIT) => out' = out]_vars

C22_Witness ==
  /\ pc = "prompt" /\ cmd.cmd = NX_CMD_STARTSESSION /\ Last(out) = 554
  /\ raised = "NxProtocolError"

\* C23: the authenticator's failure is answered with 404 and any other
\* authentication error with 503; when the authenticator returns, fails or
\* errs the loop ends quietly: 999 is not written, and after it no prompt is
\* written and no line is read.
C23_AuthEndsQuietly ==
  [][/\ (pc = "auth" /\ pc' # "auth" /\ login'.result # "Exception") =>
          /\ login'.result = "AuthFailedError" => Written = <<404>>
          /\ login'.result = "AuthError" => Written = <<503>>
          /\ login'.result = "returned" => Written = <<>>
          /\ pc' = "ended" /\ raised' = "NxQuietQuitServer"
          /\ Count999(out') = 0
     /\ (pc \in {"ended", "exit"} /\ raised = "NxQuietQuitServer")
          => (out' = out /\ ncmds' = ncmds /\ pc' \in {"ended", "exit"})]_vars

C23_Witness ==
  /\ pc = "exit" /\ login.result = "AuthError" /\ Last(out) = 503
  /\ raised = "NxQuietQuitServer"

(* ---------------- the authenticator and its helper (auth.py) ------------ *)
\* what the helper writes, piece by piece: a password prompt, the text
\* "NX> ", any other text, the end of a line
Pieces == {"prompt", "NX", "text", "eol"}

\* the number of pieces the helper writes at most
MaxOutput == 3

ukeep == <<avars, bvars, runner, login, store>>

\* ^ under re.M: the start of the buffer or the place after a line's end
AtLineStart(seen, pos, i) == i = pos + 1 \/ seen[i - 1] = "eol"

\* patterns: GetPasswordPrompt() and ^NX> , both compiled with re.M
MatchesPattern(seen, pos, i) ==
  seen[i] \in {"prompt", "NX"} /\ AtLineStart(seen, pos, i)

\* child.expect: the first match in what was not consumed yet, 0 if none
FirstMatch(seen, pos, hit(_)) ==
  LET is == { i \in (pos + 1)..Len(seen) : hit(i) } IN
    IF is = {} THEN 0 ELSE CHOOSE i \in is : \A j \in is : i <= j

\* the helper writes to its terminal
HelperWrites ==
  /\ ~auth.eof
  /\ Len(auth.seen) < MaxOutput
  /\ \E p \in Pieces : auth' = [auth EXCEPT !.seen = Append(@, p)]
  /\ UNCHANGED ukeep

\* the helper ends
HelperExits ==
  /\ ~auth.eof
  /\ auth' = [auth EXCEPT !.eof = TRUE]
  /\ UNCHANGED ukeep

\* if idx == password_prompt_idx: the password is sent, whatever was sent
\* before
AfterPrompt(a) == [a EXCEPT !.sent = @ + 1, !.pc = "linesep"]

\* except pexpect.TIMEOUT
TimeoutError == "AuthTimeoutError"

\* idx = child.expect(patterns) returns, or raises pexpect.EOF
Expect ==
  /\ auth.pc = "expect"
  /\ LET i == FirstMatch(auth.seen, auth.pos,
                         LAMBDA j : MatchesPattern(auth.seen, auth.pos, j)) IN
       IF i = 0
         THEN /\ auth.eof
              /\ auth' = [auth EXCEPT !.pos = Len(auth.seen), !.pc = "raised",
                                      !.raised = "AuthFailedError"]
       ELSE IF auth.seen[i] = "prompt"
         THEN auth' = AfterPrompt([auth EXCEPT !.pos = i])
       ELSE auth' = [auth EXCEPT !.pos = Len(auth.seen),
                                 !.auth_successful = TRUE, !.pc = "write"]
  /\ UNCHANGED ukeep

\* child.expect(os.linesep) returns, or raises pexpect.EOF
ExpectLinesep ==
  /\ auth.pc = "linesep"
  /\ LET i == FirstMatch(auth.seen, auth.pos, LAMBDA j : auth.seen[j] = "eol") IN
       IF i = 0
         THEN /\ auth.eof
              /\ auth' = [auth EXCEPT !.pos = Len(auth.seen), !.pc = "raised",
                                      !.raised = "AuthFailedError"]
       ELSE auth' = [auth EXCEPT !.pos = i, !.pc = "expect"]
  /\ UNCHANGED ukeep

\* either expect raises pexpect.TIMEOUT: nothing matched for 30 seconds
ExpectTimeout ==
  /\ auth.pc \in {"expect", "linesep"}
  /\ ~auth.eof
  /\ IF auth.pc = "expect"
       THEN FirstMatch(auth.seen, auth.pos,
                       LAMBDA j : MatchesPattern(auth.seen, auth.pos, j)) = 0
       ELSE FirstMatch(auth.seen, auth.pos, LAMBDA j : auth.seen[j] = "eol") = 0
  /\ auth' = [auth EXCEPT !.pc = "raised", !.raised = TimeoutError]
  /\ UNCHANGED ukeep

\* os.write(stdout, nxbuf) and fdcopy between the client and the helper
Splice ==
  /\ auth.pc = "write"
  /\ auth' = [auth EXCEPT !.spliced = TRUE, !.pc = "copy"]
  /\ UNCHANGED ukeep

\* fdcopy has exited and the helper has ended or was closed
AuthReturns ==
  /\ auth.pc = "copy"
  /\ auth' = [auth EXCEPT !.eof = TRUE, !.pc = "returned"]
  /\ UNCHANGED ukeep

\* nothing but the authenticator runs
Idle ==
  /\ BrokerAt("start")
  /\ sess = NoRecord
  /\ disk = NoRecord
  /\ want_restore = FALSE
  /\ agent_pid = None
  /\ watchdog_pid = None
  /\ lastop = [op |-> "init", line |-> NoLine, old |-> NoSup, from |-> ""]
  /\ eff = <<>>
  /\ restore_from = ""
  /\ runner = NoRunner
  /\ login = NoLogin

InitAuth == Idle /\ auth = NoAuth /\ store = NoStore

NextAuth ==
  \/ HelperWrites
  \/ HelperExits
  \/ Expect
  \/ ExpectLinesep
  \/ ExpectTimeout
  \/ Splice
  \/ AuthReturns

SpecAuth == InitAuth /\ [][NextAuth]_vars

\* the helper has written "NX> " at the start of a line
NxAtLineStart ==
  \E i \in DOMAIN auth.seen :
    auth.seen[i] = "NX" /\ (i = 1 \/ auth.seen[i - 1] = "eol")

\* C24: the authenticator answers one password prompt and no more, succeeds
\* only when "NX> " was written at the start of a line, raises nothing but
\* the authentication-failed error (for a second prompt, a prompt that does
\* not match, the helper's end, a timeout), and splices the client's stdio
\* only after success.
C24_OnePromptThenNX ==
  /\ auth.sent <= 1
  /\ auth.auth_successful => NxAtLineStart
  /\ auth.raised \in {"", "AuthFailedError"}
  /\ auth.spliced => (auth.auth_successful /\ auth.raised = "")

(* ------------------- unencrypted sessions are refused ------------------- *)
\* the records that exist: the record files of the session directories
Records == { nodes[s].sup.disk : s \in { t \in AllSids : nodes[t].sup.disk.state # "" } }

\* this step sends the start request of a client whose encryption
\* parameter is not "1" to the daemon that listens for it
Unencrypted ==
  /\ At("rpc")
  /\ cmd.cmd \in {NX_CMD_STARTSESSION, NX_CMD_ATTACHSESSION}
  /\ nodes[sid].phase = "listening"
  /\ cmd.params.enc # NX_TRUE
  /\ tried' # tried

\* C25: a start request whose encryption parameter is not "1" is refused
\* before the daemon writes a record or starts xauth or the agent, the
\* broker answers with 500 and 999 and the loop ends; every record that
\* exists has ssl true.
C25_UnencryptedRefused ==
  /\ [][Unencrypted =>
          /\ nodes' = nodes
          /\ Written = <<500, 999>>
          /\ pc' = "ended"
          /\ raised' = "fatal NxProtocolError"]_vars
  /\ [](\A r \in Records : r.ssl)

C25_Witness ==
  /\ pc = "ended" /\ cmd.cmd = NX_CMD_STARTSESSION /\ cmd.params.enc = "0"
  /\ sid \in Sids /\ nodes[sid].phase = "listening" /\ Records # {}
  /\ Len(out) >= 2 /\ out[Len(out) - 1] = 500 /\ Last(out) = 999

(* -------- the record file under a saving daemon and loading processes ---- *)
\* the number of blocks of a record's text, and of saves the daemon makes
MaxBlocks == 2

MaxSaves == 2

\* the processes that load the record while the daemon saves it
Loaders == {"nxserver", "nxnode"}

skeep == <<avars, bvars, runner, login, auth>>

\* SerializeSessionToString: the text of the record as saved the v-th time
SessionText(v) == [i \in 1..MaxBlocks |-> v]

\* DeserializeSessionFromString: json.loads raises ValueError for a text
\* that is cut short
DeserializeSession(txt) ==
  IF Len(txt) = MaxBlocks /\ \A i \in DOMAIN txt : txt[i] = txt[1]
    THEN [raised |-> "", record |-> txt[1]]
  ELSE [raised |-> "ValueError", record |-> None]

\* LoadSession returns None
NoSession == [raised |-> "", record |-> None]

\* a process that loads: ino is the file it has opened, result what the
\* last LoadSession returned or raised
Loader(p, ino, r) == [pc |-> p, ino |-> ino, result |-> r]

\* an empty session directory: inode holds the text of each file ever
\* created, data and tmp are the directory's entries for the record file and
\* for the temporary file, w is the saving daemon and l are the loaders
NoFiles ==
  [inode |-> [i \in 1..MaxSaves |-> <<>>], data |-> None, tmp |-> None,
   w |-> [pc |-> "idle", ino |-> None, n |-> 0],
   l |-> [p \in Loaders |-> Loader("idle", None, NoSession)],
   saved |-> {}]

\* mutant: the record file is opened for writing under its own name
Mkstemp_InPlace(s) ==
  [s EXCEPT !.data = s.w.n + 1,
            !.w = [pc |-> "write", ino |-> s.w.n + 1, n |-> s.w.n + 1]]

\* WriteFile: tempfile.mkstemp(prefix=".tmp", suffix=base_name, dir=dir_name)
Mkstemp(s) ==
  [s EXCEPT !.tmp = s.w.n + 1,
            !.w = [pc |-> "write", ino |-> s.w.n + 1, n |-> s.w.n + 1]]

\* SaveSession: WriteFile is entered
SaveSession ==
  /\ store.w.pc = "idle"
  /\ store.w.n < MaxSaves
  /\ store' = Mkstemp(store)
  /\ UNCHANGED skeep

\* os.write(fd, data): the text reaches the file block after block
OsWrite ==
  /\ store.w.pc = "write"
  /\ LET txt == Append(store.inode[store.w.ino], store.w.n) IN
       store' = [store EXCEPT
                   !.inode[store.w.ino] = txt,
                   !.w.pc = IF Len(txt) = MaxBlocks THEN "rename" ELSE "write"]
  /\ UNCHANGED skeep

\* os.write, os.fsync or os.rename raises
WriteFails ==
  /\ store.w.pc \in {"write", "rename"}
  /\ store' = [store EXCEPT !.w.pc = "finally"]
  /\ UNCHANGED skeep

\* os.rename(new_name, file_name)
Rename ==
  /\ store.w.pc = "rename"
  /\ store' = [store EXCEPT !.data = store.w.ino, !.tmp = None,
                            !.saved = @ \cup {store.w.n}, !.w.pc = "finally"]
  /\ UNCHANGED skeep

\* finally: os.close(fd), RemoveFile(new_name)
WriteFileFinally ==
  /\ store.w.pc = "finally"
  /\ store' = [store EXCEPT !.tmp = None, !.w.pc = "idle", !.w.ino = None]
  /\ UNCHANGED skeep

\* LoadSession: open(filename, "r"); ENOENT returns None
LoadOpen(p) ==
  /\ store.l[p].pc \in {"idle", "done"}
  /\ store' = [store EXCEPT
                 !.l[p] = IF store.data = None
                            THEN Loader("done", None, NoSession)
                          ELSE Loader("read", store.data, NoSession)]
  /\ UNCHANGED skeep

\* LoadSession: DeserializeSessionFromString(fd.read())
LoadRead(p) ==
  /\ store.l[p].pc = "read"
  /\ store' = [store EXCEPT
                 !.l[p] = Loader("done", None,
                                 DeserializeSession(store.inode[store.l[p].ino]))]
  /\ UNCHANGED skeep

InitSave == Idle /\ auth = NoAuth /\ store = NoFiles

NextSave ==
  \/ SaveSession
  \/ OsWrite
  \/ WriteFails
  \/ Rename
  \/ WriteFileFinally
  \/ \E p \in Loaders : LoadOpen(p)
  \/ \E p \in Loaders : LoadRead(p)

SpecSave == InitSave /\ [][NextSave]_vars

\* the text of the record file, none if there is no record file
DataText(s) ==
  IF s.data = None THEN [exists |-> FALSE, text |-> <<>>]
  ELSE [exists |-> TRUE, text |-> s.inode[s.data]]

\* C26: while the daemon saves the record and other processes load it,
\* every load returns nothing or a record that was saved completely before;
\* the record file changes only by the rename of a completely written text,
\* so a write that fails leaves it as it was.
C26_LoadSeesWholeRecord ==
  /\ [](\A p \in Loaders :
          store.l[p].pc = "done"
            => /\ store.l[p].result.raised = ""
               /\ store.l[p].result.record \in store.saved \cup {None})
  /\ [][DataText(store') # DataText(store)
          => /\ store.w.pc = "rename" /\ store'.w.pc = "finally"
             /\ DataText(store').text = SessionText(store.w.n)]_vars
  /\ [][(store.w.pc \in {"write", "rename"} /\ store'.w.pc = "finally"
           /\ store'.saved = store.saved)
          => DataText(store') = DataText(store)]_vars

\* a load has returned the first record while the second save had written
\* part of its text, and that save failed
C26_Witness ==
  /\ \E p \in Loaders : store.l[p].pc = "done" /\ store.l[p].result.record = 1
  /\ store.w.n = 2 /\ store.w.pc = "finally" /\ store.saved = {1}
  /\ Len(store.inode[2]) = 1

(* ------------- session ids under brokers that create them at once ------- *)
\* the brokers that call CreateSessionID
Callers == {"b1", "b2", "b3"}

\* CreateSessionID: "if tries > 10"
MAX_RETRIES == 10

\* a call of CreateSessionID: pc is "mkdir" while it loops, "returned" or
\* "raised" after it; sessid is what it returned, err what it raised
Call(p, t, s, e) == [pc |-> p, tries |-> t, sessid |-> s, err |-> e]

\* the sessions directory without any session, every broker about to call;
\* made tells which call's mkdir created a directory
NoDirs ==
  [dirs |-> {}, made |-> [s \in Sids |-> ""],
   c |-> [b \in Callers |-> Call("mkdir", 0, NoSid, "")]]

\* mutant: an id whose directory exists is returned
AfterExists_Return(call, s) == [call EXCEPT !.pc = "returned", !.sessid = s]

\* CreateSessionID, except OSError with errno EEXIST: give up after ten
\* retries, else try again
AfterExists(call, s) ==
  IF call.tries > MAX_RETRIES
    THEN [call EXCEPT !.pc = "raised", !.err = "GenericError"]
  ELSE call

\* one round of the loop of CreateSessionID in broker b: NewUniqueId gives
\* s, and mkdir creates the directory, finds it, or fails otherwise
TryMkdir(b) ==
  /\ store.c[b].pc = "mkdir"
  /\ \E s \in Sids :
       LET call == [store.c[b] EXCEPT !.tries = @ + 1] IN
         \/ /\ s \notin store.dirs
            /\ store' = [store EXCEPT
                           !.dirs = @ \cup {s}, !.made[s] = b,
                           !.c[b] = [call EXCEPT !.pc = "returned", !.sessid = s]]
         \/ /\ s \in store.dirs
            /\ store' = [store EXCEPT !.c[b] = AfterExists(call, s)]
         \/ store' = [store EXCEPT
                        !.c[b] = [call EXCEPT !.pc = "raised", !.err = "OSError"]]
  /\ UNCHANGED skeep

InitIds == Idle /\ auth = NoAuth /\ store = NoDirs

NextIds == \E b \in Callers : TryMkdir(b)

SpecIds == InitIds /\ [][NextIds]_vars

\* the calls that have returned
Returned == { b \in Callers : store.c[b].pc = "returned" }

\* C27: CreateSessionID returns only an id whose directory its own mkdir
\* created, so no two calls return the same id; a call whose mkdir finds the
\* directory tries again, gives up with an error when that has happened
\* after ten retries, and fails at once for any other error of mkdir.
C27_IdsAreUnique ==
  /\ [](\A b \in Returned :
          /\ store.c[b].sessid \in store.dirs
          /\ store.made[store.c[b].sessid] = b
          /\ \A d \in Returned : store.c[d].sessid = store.c[b].sessid => d = b)
  /\ [][\A b \in Callers :
          /\ (store.c[b].pc = "mkdir" /\ store'.c[b].pc = "raised"
                /\ store'.c[b].err = "GenericError")
               => store'.c[b].tries = MAX_RETRIES + 1
          /\ (store.c[b].pc = "mkdir" /\ store'.c[b].pc = "mkdir"
                /\ store'.c[b] # store.c[b])
               => (store'.c[b].tries <= MAX_RETRIES /\ store'.dirs = store.dirs)
          /\ (store'.c[b].pc = "raised" /\ store'.c[b].err = "OSError"
                /\ store.c[b].pc = "mkdir")
               => store'.dirs = store.dirs]_vars

\* two calls have returned the two ids and the third has given up
C27_Witness ==
  /\ Cardinality(Returned) = 2
  /\ \E b \in Callers :
       /\ store.c[b].pc = "raised" /\ store.c[b].err = "GenericError"
       /\ store.c[b].tries = MAX_RETRIES + 1

(* ------------- the record object, its text and its state ---------------- *)
\* SessionBase.__slots__
SLOTS ==
  <<"cookie", "display", "fullscreen", "geometry", "hostname", "id", "name",
    "options", "port", "rootless", "screeninfo", "ssl", "state",
    "subscription", "type", "username", "virtualdesktop">>

SlotNames == { SLOTS[i] : i \in DOMAIN SLOTS }

\* the attributes NodeSession.__init__ and _ParseClientargs set that are no
\* slots of SessionBase
NodeAttrs ==
  { "cache", "client", "images", "keyboard", "link", "resize",
    "shadow_cookie", "shadow_display" }

\* the value None, and the values written as the program writes them
NONE == "None"

\* NodeSession.__init__ for a client that sends no optional parameter
NodeSessionInit ==
  [name \in SlotNames \cup NodeAttrs |->
     CASE name = "cookie" -> "C00C"
       [] name = "display" -> "1"
       [] name = "fullscreen" -> "False"
       [] name = "geometry" -> "640x480"
       [] name = "hostname" -> "localhost"
       [] name = "id" -> "A28E"
       [] name = "name" -> "desk"
       [] name = "rootless" -> "False"
       [] name = "ssl" -> "True"
       [] name = "state" -> SESS_STATE_CREATED
       [] name = "subscription" -> "GPL"
       [] name = "type" -> "unix-kde"
       [] name = "username" -> USERNAME
       [] name = "virtualdesktop" -> "True"
       [] name = "cache" -> "16"
       [] name = "client" -> "unknown"
       [] name = "images" -> "64"
       [] name = "keyboard" -> "pc105/gb"
       [] name = "link" -> "isdn"
       [] name = "resize" -> "False"
       [] OTHER -> NONE]

\* SessionBase.__getattr__ behind the attributes that are set: None for a
\* slot, AttributeError for any other name
GetAttr(obj, name) ==
  IF name \in DOMAIN obj THEN obj[name]
  ELSE IF name \in SlotNames THEN NONE
  ELSE "AttributeError"

\* mutant: None is taken for a state
ValidState_OrNone(value) == value \in VALID_SESS_STATES \cup {NONE}

\* SessionBase.__setattr__: value in constants.VALID_SESS_STATES
ValidState(value) == value \in VALID_SESS_STATES

\* SessionBase.__setattr__
SetAttr(obj, name, value) ==
  IF name = "state" /\ ~ValidState(value)
    THEN [raised |-> "InvalidSessionState", obj |-> obj]
  ELSE [raised |-> "",
        obj |-> [n \in DOMAIN obj \cup {name} |->
                   IF n = name THEN value ELSE obj[n]]]

\* SessionBase.Serialize and SerializeSessionToString: the slots, and the
\* time of the update
Serialize(obj) ==
  [i \in 1..(Len(SLOTS) + 1) |->
     IF i <= Len(SLOTS) THEN <<SLOTS[i], GetAttr(obj, SLOTS[i])>>
     ELSE <<"_updated", "now">>]

\* NxSession._Restore of the loaded text: the names that are slots are set
\* one by one with setattr
RECURSIVE RestoreFrom(_, _, _)
RestoreFrom(txt, i, r) ==
  IF i > Len(txt) \/ r.raised # "" THEN r
  ELSE RestoreFrom(txt, i + 1,
                   IF txt[i][1] \in SlotNames
                     THEN SetAttr(r.obj, txt[i][1], txt[i][2])
                   ELSE r)

NoObject == [x \in {} |-> NONE]

\* NxSession.Restore
RestoreSession(txt) ==
  RestoreFrom(txt, 1, [raised |-> "", obj |-> NoObject])

\* what the daemon assigns while the session runs
Assignments ==
  { <<"state", v>> : v \in VALID_SESS_STATES \cup {"!invalid!", "", NONE} }
    \cup { <<"keyboard", v>> : v \in {"pc105/gb", "pc102/de"} }

\* the daemon's record object sess, the text of the record file (empty while
\* there is none), what was saved last, what LoadSession returned last, and
\* the last assignment with what it raised
NoRecordFile ==
  [sess |-> NodeSessionInit, file |-> <<>>, saved |-> NoObject,
   loaded |-> [raised |-> "", found |-> FALSE, obj |-> NoObject],
   last |-> [name |-> "", value |-> "", raised |-> ""]]

\* sess.<name> = value
Assign ==
  /\ \E a \in Assignments :
       LET r == SetAttr(store.sess, a[1], a[2]) IN
         store' = [store EXCEPT
                     !.sess = r.obj,
                     !.last = [name |-> a[1], value |-> a[2],
                               raised |-> r.raised]]
  /\ UNCHANGED skeep

\* NxSessionManager.SaveSession(sess), as a whole
SaveRecord ==
  /\ store' = [store EXCEPT !.file = Serialize(store.sess),
                            !.saved = store.sess]
  /\ UNCHANGED skeep

\* NxSessionManager.LoadSession(sess.id), as a whole
LoadRecord ==
  /\ store' = [store EXCEPT
                 !.loaded =
                   IF store.file = <<>>
                     THEN [raised |-> "", found |-> FALSE, obj |-> NoObject]
                   ELSE LET r == RestoreSession(store.file) IN
                          [raised |-> r.raised, found |-> r.raised = "",
                           obj |-> r.obj]]
  /\ UNCHANGED skeep

InitRecord == Idle /\ auth = NoAuth /\ store = NoRecordFile

NextRecord == Assign \/ SaveRecord \/ LoadRecord

SpecRecord == InitRecord /\ [][NextRecord]_vars

\* C28: a record that was saved and is loaded afterwards has, field by
\* field of the data model (the slots and keyboard, link, client, cache,
\* images, resize, shadow_display, shadow_cookie), the values it was saved
\* with; while there is no record file LoadSession returns None, and it
\* never raises.
C28_RoundTrip ==
  [][store'.loaded # store.loaded =>
       /\ store'.loaded.raised = ""
       /\ store'.file = <<>> => ~store'.loaded.found
       /\ store'.loaded.found =>
            \A name \in SlotNames \cup NodeAttrs :
              GetAttr(store'.loaded.obj, name) = GetAttr(store'.saved, name)]_vars

\* C29: an assignment to the state of one of the eight valid states sets
\* it; an assignment of any other value raises InvalidSessionState and
\* leaves the state as it was.
C29_StateAssignment ==
  [][store'.last # store.last =>
       (store'.last.name = "state" =>
          IF store'.last.value \in
               { SESS_STATE_CREATED, SESS_STATE_STARTING, SESS_STATE_WAITING,
                 SESS_STATE_RUNNING, SESS_STATE_SUSPENDING,
                 SESS_STATE_SUSPENDED, SESS_STATE_TERMINATING,
                 SESS_STATE_TERMINATED }
            THEN /\ store'.last.raised = ""
                 /\ store'.sess["state"] = store'.last.value
          ELSE /\ store'.last.raised = "InvalidSessionState"
               /\ store'.sess = store.sess)]_vars

C29_Witness ==
  /\ store.last = [name |-> "state", value |-> "!invalid!",
                   raised |-> "InvalidSessionState"]
  /\ store.sess["state"] = SESS_STATE_SUSPENDED

(* ---------------- the scan of the sessions directory -------------------- *)
\* a record file: whose session, whose owner, in which state
Rec(s, u, st) == [id |-> s, username |-> u, state |-> st]

\* no record file
NoRec == Rec(NoSid, "", "")

\* ListVisibleFiles sorts the names
SortedSids == <<"A28E", "F5AA">>

\* the owner asked for, "" for None
ScanUsers == {"", USERNAME}

\* the filter function asked for: "" for None, else the state it wants
ScanFilters == {"", SESS_STATE_RUNNING}

\* the sessions of the directory belong to different users
ScanOwner(s) == IF s = SortedSids[1] THEN USERNAME ELSE OTHER_USERNAME

\* what the sessions directory can hold for session s
RecordsOf(s) ==
  { Rec(s, ScanOwner(s), st) :
      st \in {SESS_STATE_RUNNING, SESS_STATE_TERMINATED} }

\* a process in FindSessionsWithFilter(u, f): list is what ListVisibleFiles
\* returned, i the number of names done, result the list built so far;
\* start is the directory as it was when it was listed, changed whether a
\* record file was written or removed since, gone the records removed since
Scan(p, u, f, list, i, result, start, changed, gone) ==
  [pc |-> p, u |-> u, f |-> f, list |-> list, i |-> i, result |-> result,
   start |-> start, changed |-> changed, gone |-> gone]

\* an empty sessions directory and a process about to scan it
NoScan ==
  [dirs |-> {}, recs |-> [s \in Sids |-> NoRec],
   scan |-> Scan("idle", "", "", <<>>, 0, <<>>, [s \in Sids |-> NoRec],
                 FALSE, {})]

\* CreateSessionID by a broker
MakeDir(s) ==
  /\ s \notin store.dirs
  /\ store' = [store EXCEPT !.dirs = @ \cup {s}]
  /\ UNCHANGED skeep

\* SaveSession by the daemon of session s
SaveRec(s) ==
  /\ s \in store.dirs
  /\ \E r \in RecordsOf(s) :
       /\ r # store.recs[s]
       /\ store' = [store EXCEPT !.recs[s] = r, !.scan.changed = TRUE]
  /\ UNCHANGED skeep

\* the record file of s is removed from outside
RemoveRec(s) ==
  /\ store.recs[s] # NoRec
  /\ store' = [store EXCEPT !.recs[s] = NoRec, !.scan.changed = TRUE,
                            !.scan.gone = @ \cup {s}]
  /\ UNCHANGED skeep

\* FindSessionsWithFilter: utils.ListVisibleFiles(self._path)
ScanList ==
  /\ store.scan.pc \in {"idle", "done"}
  /\ \E u \in ScanUsers, f \in ScanFilters :
       store' = [store EXCEPT
                   !.scan = Scan("load", u, f,
                                 SelectSeq(SortedSids,
                                           LAMBDA s : s \in store.dirs),
                                 0, <<>>, store.recs, FALSE, {})]
  /\ UNCHANGED skeep

\* mutant: the owner is not compared
Selected_AnyOwner(rec, u, f) ==
  rec # NoRec /\ (f = "" \/ rec.state = f)

\* FindSessionsWithFilter: the condition under which sess is appended
Selected(rec, u, f) ==
  /\ rec # NoRec
  /\ (u = "" \/ rec.username = u)
  /\ (f = "" \/ rec.state = f)

\* FindSessionsWithFilter: one round of the loop, and the return after the
\* last
ScanLoad ==
  /\ store.scan.pc = "load"
  /\ IF store.scan.i = Len(store.scan.list)
       THEN store' = [store EXCEPT !.scan.pc = "done"]
     ELSE LET rec == store.recs[store.scan.list[store.scan.i + 1]] IN
            store' = [store EXCEPT
                        !.scan.i = @ + 1,
                        !.scan.result =
                          IF Selected(rec, store.scan.u, store.scan.f)
                            THEN Append(@, rec)
                          ELSE @]
  /\ UNCHANGED skeep

InitScan == Idle /\ auth = NoAuth /\ store = NoScan

NextScan ==
  \/ \E s \in Sids : MakeDir(s)
  \/ \E s \in Sids : SaveRec(s)
  \/ \E s \in Sids : RemoveRec(s)
  \/ ScanList
  \/ ScanLoad

SpecScan == InitScan /\ [][NextScan]_vars

\* the records of r that the scan asks for
Wanted(r, u, f) ==
  { r[s] : s \in { t \in Sids : r[t] # NoRec
                                 /\ (u = "" \/ r[t].username = u)
                                 /\ (f = "" \/ r[t].state = f) } }

Results == { store.scan.result[i] : i \in DOMAIN store.scan.result }

\* no session twice in the result
AtMostOnce ==
  \A i, j \in DOMAIN store.scan.result :
    store.scan.result[i].id = store.scan.result[j].id => i = j

\* the statement of C30 as the specification has it: the scan returns the
\* records present when it started that are asked for, each at most once,
\* but for those whose record was removed during the scan
C30_Original ==
  store.scan.pc = "done" =>
    /\ AtMostOnce
    /\ Results \subseteq Wanted(store.scan.start, store.scan.u, store.scan.f)
    /\ \A r \in Wanted(store.scan.start, store.scan.u, store.scan.f) :
         r.id \notin store.scan.gone => r \in Results

\* C30: the scan visits the directories listed when it started, in the
\* order of their names, and returns each record it finds there when it
\* loads it, if its owner is u and f holds of it as loaded (any owner for u
\* absent, any record for f absent), each at most once; a directory without
\* record file when it is loaded is skipped without error; if no record was
\* written or removed during the scan the result is exactly the records
\* present at its start that are asked for.
C30_ScanReturnsWhatItLoads ==
  /\ [](/\ AtMostOnce
        /\ \A r \in Results :
             /\ \E i \in 1..store.scan.i : store.scan.list[i] = r.id
             /\ (store.scan.u = "" \/ r.username = store.scan.u)
             /\ (store.scan.f = "" \/ r.state = store.scan.f)
        /\ (store.scan.pc = "done" /\ ~store.scan.changed)
             => Results = Wanted(store.scan.start, store.scan.u, store.scan.f))
  /\ [][store'.scan.i = store.scan.i + 1 =>
          LET s == store.scan.list[store'.scan.i] IN
            /\ store'.scan.pc = "load"
            /\ store.recs[s] = NoRec => store'.scan.result = store.scan.result
            /\ store.recs[s] \in Wanted(store.recs, store.scan.u, store.scan.f)
                 => store'.scan.result = Append(store.scan.result, store.recs[s])]_vars

\* a scan is done that returned one record and skipped a directory whose
\* record file had been removed after the listing
C30_Witness ==
  /\ store.scan.pc = "done" /\ Len(store.scan.list) = 2
  /\ Len(store.scan.result) = 1 /\ store.scan.gone # {}

(* ---------------------- the session list of listsession ----------------- *)
SESS_TYPE_SHADOW == "shadow"

\* a record file of the sessions directory as listsession reads it
ListRec(s, u, st, ty) == [id |-> s, username |-> u, state |-> st, type |-> ty]

NoListRec == ListRec(NoSid, "", "", "")

\* the states and types of the records listed
ListStates ==
  { SESS_STATE_CREATED, SESS_STATE_RUNNING, SESS_STATE_SUSPENDING,
    SESS_STATE_SUSPENDED, SESS_STATE_TERMINATING, SESS_STATE_TERMINATED }

ListTypes == {"unix-kde", SESS_TYPE_SHADOW}

ListRecs(s) ==
  { ListRec(s, u, st, ty) : u \in {USERNAME, OTHER_USERNAME},
                            st \in ListStates, ty \in ListTypes }
    \cup {NoListRec}

\* a parameter that was not sent
Absent == <<"absent">>

\* the parsed parameters of a listsession line: --user, --type and --status,
\* the last two split at the commas
ListRequests ==
  [user : {Absent, <<OTHER_USERNAME>>},
   type : {Absent, <<"unix-kde">>, <<SESS_TYPE_SHADOW>>,
           <<"unix-kde", SESS_TYPE_SHADOW>>, <<SESS_TYPE_SHADOW, "unix-kde">>},
   status : {Absent, <<SESS_STATE_SUSPENDED, SESS_STATE_RUNNING>>,
             <<SESS_STATE_TERMINATED>>, <<SESS_STATE_SUSPENDING>>}]

\* mutant: the status is compared as the record has it
ConvertStatusForClient_Same(status) == status

\* ConvertStatusForClient
ConvertStatusForClient(status) ==
  IF status = SESS_STATE_TERMINATING THEN SESS_STATE_TERMINATED
  ELSE IF status = SESS_STATE_SUSPENDING THEN SESS_STATE_SUSPENDED
  ELSE status

Elements(q) == { q[i] : i \in DOMAIN q }

\* _ListSession: want_shadow, find_types and find_states of request q
WantShadow(q) == q.type # Absent /\ q.type[1] = SESS_TYPE_SHADOW

FindTypes(q) == IF q.type = Absent \/ WantShadow(q) THEN Absent ELSE q.type

\* for a shadow request find_states is the string "running", of which no
\* other state is a part
FindStates(q) ==
  IF WantShadow(q) THEN <<SESS_STATE_RUNNING>>
  ELSE IF q.status # Absent THEN q.status
  ELSE Absent

\* _ListSessionInner: _Filter
ListFilter(rec, find_types, find_states) ==
  /\ find_states = Absent
       \/ ConvertStatusForClient(rec.state) \in Elements(find_states)
  /\ find_types = Absent \/ rec.type \in Elements(find_types)

\* FindSessionsWithFilter(ctx.username, _Filter) over the sorted names
FoundSessions(recs, q) ==
  SelectSeq([i \in DOMAIN SortedSids |-> recs[SortedSids[i]]],
            LAMBDA rec : /\ rec # NoListRec
                         /\ rec.username = USERNAME
                         /\ ListFilter(rec, FindTypes(q), FindStates(q)))

\* a row of the table: FormatStatus shows the status of the client
ListRow(rec) ==
  [id |-> rec.id, type |-> rec.type,
   status |-> ConvertStatusForClient(rec.state)]

\* the broker of USERNAME about to answer a listsession line
ListStart(recs, q) ==
  [pc |-> "list", recs |-> recs, req |-> q, out |-> <<>>, rows |-> <<>>]

\* _ListSession, after the parameters were parsed
ListSessionReply ==
  /\ store.pc = "list"
  /\ LET sessions == FoundSessions(store.recs, store.req) IN
       store' = [store EXCEPT
                   !.pc = "done",
                   !.rows = [i \in DOMAIN sessions |-> ListRow(sessions[i])],
                   !.out = <<127>> \o TableLines(Len(sessions))
                             \o <<PLAIN, 148>>]
  /\ UNCHANGED skeep

InitList ==
  /\ Idle
  /\ auth = NoAuth
  /\ store \in { ListStart(recs, q) :
                   recs \in { r \in [Sids -> UNION { ListRecs(s) : s \in Sids }] :
                                \A s \in Sids : r[s] \in ListRecs(s) },
                   q \in ListRequests }

NextList == ListSessionReply

SpecList == InitList /\ [][NextList]_vars

\* the status the client is shown, as the specification gives it
ClientStatus(st) ==
  CASE st = SESS_STATE_TERMINATING -> SESS_STATE_TERMINATED
    [] st = SESS_STATE_SUSPENDING -> SESS_STATE_SUSPENDED
    [] OTHER -> st

\* the sessions that the request asks for
Asked(s) ==
  LET r == store.recs[s] q == store.req IN
    /\ r # NoListRec
    /\ r.username = USERNAME
    /\ IF q.type # Absent /\ q.type[1] = SESS_TYPE_SHADOW
         THEN r.state = SESS_STATE_RUNNING
       ELSE /\ q.type = Absent \/ r.type \in Elements(q.type)
            /\ q.status = Absent \/ ClientStatus(r.state) \in Elements(q.status)

\* C31: listsession lists the sessions of the connected user only, whatever
\* --user says, of the requested types and with a client-visible status
\* (terminating shown as terminated, suspending as suspended) among the
\* requested ones; for type shadow it lists the user's running sessions;
\* the reply ends with 148.
C31_ListOfOwnSessions ==
  store.pc = "done" =>
    /\ { store.rows[i].id : i \in DOMAIN store.rows } = { s \in Sids : Asked(s) }
    /\ \A i, j \in DOMAIN store.rows : store.rows[i].id = store.rows[j].id => i = j
    /\ \A i \in DOMAIN store.rows :
         store.rows[i].status = ClientStatus(store.recs[store.rows[i].id].state)
    /\ store.out[1] = 127 /\ Last(store.out) = 148
    /\ Len(store.out) = Len(store.rows) + 5

\* a list asked for with --user of another user and --status suspended,
\* running that shows the user's suspending session and not the other's
C31_Witness ==
  /\ store.pc = "done" /\ store.req.user = <<OTHER_USERNAME>>
  /\ store.req.status = <<SESS_STATE_SUSPENDED, SESS_STATE_RUNNING>>
  /\ Len(store.rows) = 1 /\ store.rows[1].status = SESS_STATE_SUSPENDED
  /\ store.recs[store.rows[1].id].state = SESS_STATE_SUSPENDING
  /\ \E s \in Sids : store.recs[s].username = OTHER_USERNAME
                       /\ store.recs[s].state = SESS_STATE_RUNNING

(* ======================================================================= *)
(* protocol.ParseParameters on strings of characters.                      *)
(* ======================================================================= *)
\* longest parameter string tried, in pieces
MaxPieces == 5

Quote == "\""

\* pieces the parameter strings are put together from; the parser below
\* works on the characters
ParamPieces ==
  { <<"-", "-", "a", "=", Quote>>, <<Quote>>, <<" ">>, <<"a">>, <<"1">>,
    <<",">>, <<"-">>, <<"=">> }

RECURSIVE Flatten(_)
Flatten(ps) == IF ps = <<>> THEN <<>> ELSE Head(ps) \o Flatten(Tail(ps))

ParamStrings ==
  { Flatten(ps) : ps \in UNION { [1..n -> ParamPieces] : n \in 0..MaxPieces } }

\* \s of the regular expression and the characters str.strip() removes
Spaces == {" "}
IsSpace(ch) == ch \in Spaces
\* [a-z] and [a-z0-9_-] with re.I
IsLetter(ch) == ch \in {"a"}
NameChars == {"a", "1", "_", "-"}
IsNameChar(ch) == ch \in NameChars

\* [^"]
NotQuote(ch) == ch # Quote
NotQuotes == { ch \in UNION { { p[i] : i \in 1..Len(p) } : p \in ParamPieces } :
                 NotQuote(ch) }

\* the first position from i on whose character is not of the class,
\* Len(s) + 1 when there is none: a greedy star
RECURSIVE RunEnd(_, _, _)
RunEnd(s, i, class) ==
  IF i <= Len(s) /\ s[i] \in class THEN RunEnd(s, i + 1, class) ELSE i

RECURSIVE StripRight(_)
StripRight(s) ==
  IF s # <<>> /\ IsSpace(s[Len(s)]) THEN StripRight(SubSeq(s, 1, Len(s) - 1))
  ELSE s

\* params.strip()
Strip(s) == StripRight(SubSeq(s, RunEnd(s, 1, Spaces), Len(s)))

NoMatch == [ok |-> FALSE, name |-> <<>>, value |-> <<>>, end |-> 0]

\* param_re.search(work):
\*   ^\s*--(?P<name>[a-z][a-z0-9_-]*)="(?P<value>[^"]*)"\s*
\* the name is a greedy run that "=" must follow, the value runs up to the
\* next quote; no other split of the text can match
ParamMatch(work) ==
  LET d == RunEnd(work, 1, Spaces)
      n == d + 2
      e == RunEnd(work, n + 1, NameChars)
      v == e + 2
      q == RunEnd(work, v, NotQuotes)
  IN IF /\ q <= Len(work)
        /\ work[d] = "-" /\ work[d + 1] = "-"
        /\ IsLetter(work[n])
        /\ work[e] = "=" /\ work[e + 1] = Quote
     THEN [ok |-> TRUE, name |-> SubSeq(work, n, e - 1),
           value |-> SubSeq(work, v, q - 1),
           end |-> RunEnd(work, q + 1, Spaces) - 1]
     ELSE NoMatch

\* NxParameterParsingError: NxProtocolError(597, message), fatal left False
NxParameterParsingError == [code |-> 597, fatal |-> FALSE]

ParsedPairs(pairs) == [raised |-> FALSE, pairs |-> pairs]

\* the while loop of ParseParameters
RECURSIVE ParseWork(_, _)
ParseWork(work, result) ==
  IF work = <<>> THEN ParsedPairs(result)
  ELSE LET mt == ParamMatch(work)
       IN IF ~mt.ok THEN [raised |-> TRUE, pairs |-> <<>>]
          ELSE ParseWork(SubSeq(work, mt.end + 1, Len(work)),
                         Append(result, <<mt.name, mt.value>>))

ParseParameters_NoStrip(params) == ParseWork(params, <<>>)

ParseParameters(params) == ParseWork(Strip(params), <<>>)

\* --name="value" for every pair, single spaces between
RECURSIVE WriteBack(_)
WriteBack(pairs) ==
  IF pairs = <<>> THEN <<>>
  ELSE <<"-", "-">> \o Head(pairs)[1] \o <<"=", Quote>> \o Head(pairs)[2]
       \o <<Quote>>
       \o (IF Len(pairs) > 1 THEN <<" ">> ELSE <<>>) \o WriteBack(Tail(pairs))

NoReply == [code |-> 0, fatal |-> FALSE]

ParamStart(s) ==
  [pc |-> "start", params |-> s, result |-> ParsedPairs(<<>>), reply |-> NoReply,
   again |-> ParsedPairs(<<>>)]

\* the handler parses the parameters of the command it was given
ParseParams ==
  /\ store.pc = "start"
  /\ store' = [store EXCEPT !.pc = "parsed",
                            !.result = ParseParameters(store.params)]
  /\ UNCHANGED skeep

\* NxServerBase._HandleLine: the error of the handler is written with its
\* code, and the connection goes on unless the error is fatal
ParamsRefused ==
  /\ store.pc = "parsed"
  /\ store.result.raised
  /\ store' = [store EXCEPT !.pc = "refused",
                            !.reply = NxParameterParsingError]
  /\ UNCHANGED skeep

\* the parsed pairs are written back and parsed once more
ParseAgain ==
  /\ store.pc = "parsed"
  /\ ~store.result.raised
  /\ store' = [store EXCEPT !.pc = "again",
                 !.again = ParseParameters(WriteBack(store.result.pairs))]
  /\ UNCHANGED skeep

InitParams ==
  /\ Idle
  /\ auth = NoAuth
  /\ store \in { ParamStart(s) : s \in ParamStrings }

NextParams == ParseParams \/ ParamsRefused \/ ParseAgain

SpecParams == InitParams /\ [][NextParams]_vars

\* the parameter grammar as the specification writes it:
\*   params := (WS* "--" NAME "=" '"' VALUE '"' WS*)*
AllOf(s, a, b, ok(_)) == \A i \in a..b : ok(s[i])

IsParam(s) ==
  \E d \in 0..Len(s), e \in 1..Len(s), q \in 1..Len(s) :
    /\ d + 3 <= e /\ e + 2 <= q
    /\ AllOf(s, 1, d, IsSpace)
    /\ s[d + 1] = "-" /\ s[d + 2] = "-"
    /\ IsLetter(s[d + 3]) /\ AllOf(s, d + 4, e - 1, IsNameChar)
    /\ s[e] = "=" /\ s[e + 1] = Quote
    /\ AllOf(s, e + 2, q - 1, NotQuote)
    /\ s[q] = Quote
    /\ AllOf(s, q + 1, Len(s), IsSpace)

RECURSIVE InGrammar(_)
InGrammar(s) ==
  \/ s = <<>>
  \/ \E i \in 1..Len(s) :
       IsParam(SubSeq(s, 1, i)) /\ InGrammar(SubSeq(s, i + 1, Len(s)))

OnlySpace(s) == AllOf(s, 1, Len(s), IsSpace)

ParseDone == store.pc \in {"again", "refused"}

\* C32 as stated: a string that is accepted parses to the same pairs after
\* being written back, and every string outside the grammar is refused with
\* 597, not fatal.
C32_Original ==
  /\ store.pc = "again" => store.again = store.result
  /\ (ParseDone /\ ~InGrammar(store.params)) =>
       /\ store.pc = "refused"
       /\ store.reply = [code |-> 597, fatal |-> FALSE]

\* C32 (amended): a string that is accepted parses to the same pairs, in the
\* same order, after being written back; a string is accepted exactly when
\* it is in the grammar or holds nothing but whitespace, and every other
\* string is refused with 597, not fatal.
C32_RoundTripAndRefusal ==
  /\ store.pc = "again" => store.again = store.result
  /\ ParseDone =>
       (store.pc = "again" <=>
          (InGrammar(store.params) \/ OnlySpace(store.params)))
  /\ store.pc = "refused" => store.reply = [code |-> 597, fatal |-> FALSE]

\* two pairs, the same name twice with different values, came back
C32_Witness ==
  /\ store.pc = "again"
  /\ Len(store.again.pairs) = 2
  /\ store.again.pairs[1][1] = store.again.pairs[2][1]
  /\ store.again.pairs[1][2] # store.again.pairs[2][2]
  /\ WriteBack(store.result.pairs) # store.params

(* ======================================================================= *)
(* utils.Retry with its own clock, in whole ticks.                         *)
(* ======================================================================= *)
\* longest total timeout tried, in ticks
MaxTimeout == 6
\* longest time one call of fn takes, in ticks
MaxCallTime == 1

\* the arguments: start > 0, factor > 1.0 and limit >= 0 are asserted
RetryArgs ==
  [start : {1, 2, 5}, factor : {2, 3}, limit : {0, 3, 4}, timeout : 0..MaxTimeout]

RetryStart(a) ==
  [pc |-> "call", args |-> a, now |-> 0, end_time |-> 0 + a.timeout,
   delay |-> a.start, calls |-> 0, sleeps |-> <<>>, ends |-> <<>>]

RetryDelay_Capped(d, a) ==
  IF d * a.factor <= a.limit THEN d * a.factor ELSE d

\* if delay < limit: delay *= factor
RetryDelay(d, a) == IF d < a.limit THEN d * a.factor ELSE d

\* return fn(): the call took t ticks and did not raise
FnReturns(t) ==
  /\ store.pc = "call"
  /\ store' = [store EXCEPT !.pc = "returned", !.now = @ + t,
                            !.calls = @ + 1]
  /\ UNCHANGED skeep

\* fn() raised RetryAgain after t ticks
FnRetryAgain(t) ==
  /\ store.pc = "call"
  /\ store' = [store EXCEPT !.pc = "failed", !.now = @ + t, !.calls = @ + 1,
                            !.ends = Append(@, store.now + t)]
  /\ UNCHANGED skeep

\* if _time.time() > end_time: raise RetryTimeout()
RaiseRetryTimeout ==
  /\ store.pc = "failed"
  /\ store.now > store.end_time
  /\ store' = [store EXCEPT !.pc = "RetryTimeout"]
  /\ UNCHANGED skeep

\* _time.sleep(delay), then the delay of the next round
RetrySleep ==
  /\ store.pc = "failed"
  /\ ~(store.now > store.end_time)
  /\ store' = [store EXCEPT !.pc = "call", !.now = @ + store.delay,
                            !.sleeps = Append(@, store.delay),
                            !.delay = RetryDelay(@, store.args)]
  /\ UNCHANGED skeep

InitRetry ==
  /\ Idle
  /\ auth = NoAuth
  /\ store \in { RetryStart(a) : a \in RetryArgs }

NextRetry ==
  \/ \E t \in 0..MaxCallTime : FnReturns(t)
  \/ \E t \in 0..MaxCallTime : FnRetryAgain(t)
  \/ RaiseRetryTimeout
  \/ RetrySleep

SpecRetry == InitRetry /\ [][NextRetry]_vars

RetryOver == store.pc \in {"returned", "RetryTimeout"}

\* fn is called at least once; the result comes back with the first call
\* that does not ask to retry; RetryTimeout follows the first failed call
\* that ended later than timeout after the start, and nothing is called
\* after that
RetryCallsAndTimeout ==
  /\ RetryOver => store.calls >= 1
  /\ Len(store.ends) = (IF store.pc = "returned" THEN store.calls - 1
                        ELSE store.calls)
  /\ \A i \in 1..Len(store.ends) :
       (store.ends[i] > store.args.timeout) =>
          /\ i = Len(store.ends)
          /\ store.pc \in {"failed", "RetryTimeout"}
  /\ store.pc = "RetryTimeout" =>
       store.ends[Len(store.ends)] > store.args.timeout
  /\ Len(store.sleeps) = (IF store.pc \in {"failed", "RetryTimeout"}
                          THEN store.calls - 1 ELSE
                          IF store.pc = "returned" THEN store.calls - 1
                          ELSE store.calls)

\* C33 as stated: the calls and the timeout as above, and the delays start
\* at start, are multiplied by factor each time and never exceed limit.
C33_Original ==
  /\ RetryCallsAndTimeout
  /\ \A i \in 1..Len(store.sleeps) :
       /\ store.sleeps[i] <= store.args.limit
       /\ i = 1 => store.sleeps[i] = store.args.start

\* C33 (amended): the calls and the timeout as above; the first delay is
\* start, and each later delay is the one before it times factor when the
\* one before it was below limit and the same delay otherwise, so a delay
\* stays below limit times factor unless start itself is larger.
C33_RetryDelays ==
  /\ RetryCallsAndTimeout
  /\ \A i \in 1..Len(store.sleeps) :
       /\ i = 1 => store.sleeps[i] = store.args.start
       /\ i > 1 =>
            store.sleeps[i] = (IF store.sleeps[i - 1] < store.args.limit
                               THEN store.sleeps[i - 1] * store.args.factor
                               ELSE store.sleeps[i - 1])
       /\ \/ store.sleeps[i] = store.args.start
          \/ store.sleeps[i] < store.args.limit * store.args.factor

\* RetryTimeout after three calls, the last sleep longer than limit
C33_Witness ==
  /\ store.pc = "RetryTimeout"
  /\ store.calls >= 3
  /\ store.args.start < store.args.limit
  /\ store.sleeps[Len(store.sleeps)] > store.args.limit

(* ======================================================================= *)
(* utils.ParseVersion and utils.FormatVersion, one after the other.        *)
(* ======================================================================= *)
\* str(): the decimal digits of a number
RECURSIVE StrOf(_)
StrOf(n) ==
  IF n < 10 THEN <<DigitChars[n + 1]>>
  ELSE StrOf(n \div 10) \o <<DigitChars[(n % 10) + 1]>>

\* sep.join(parts)
RECURSIVE JoinParts(_, _)
JoinParts(parts, sep) ==
  IF parts = <<>> THEN <<>>
  ELSE IF Len(parts) = 1 THEN Head(parts)
  ELSE Head(parts) \o sep \o JoinParts(Tail(parts), sep)

\* the divmod loop of FormatVersion from part idx down to the first part:
\* what is left of the number and the parts, first part first
RECURSIVE DivParts(_, _, _)
DivParts(next, digits, idx) ==
  IF idx = 0 THEN [next |-> next, parts |-> <<>>]
  ELSE LET rest == DivParts(next \div Pow10(digits[idx]), digits, idx - 1)
       IN [next |-> rest.next,
           parts |-> Append(rest.parts, StrOf(next % Pow10(digits[idx])))]

\* utils.FormatVersion: ValueError if something is left of the number
FormatVersion(version, sep, digits) ==
  LET d == DivParts(version, digits, Len(digits)) IN
    IF d.next > 0 THEN [raised |-> TRUE, text |-> <<>>]
    ELSE [raised |-> FALSE, text |-> JoinParts(d.parts, sep)]

\* the values the parts of the versions are taken from
PartNumbers == {0, 2, 3, 99, 100, 9999, 10000}

\* versions in the usual writing, the same with a leading zero or a
\* package suffix, and with parts missing
VersionTexts ==
  UNION { { JoinParts(<<StrOf(a), StrOf(b), StrOf(c)>>, <<".">>),
            JoinParts(<<StrOf(a), StrOf(b), StrOf(c)>>, <<".">>) \o <<"-", "6">>,
            <<"0">> \o JoinParts(<<StrOf(a), StrOf(b), StrOf(c)>>, <<".">>),
            JoinParts(<<StrOf(a), StrOf(b)>>, <<".">>) } :
          a \in PartNumbers, b \in PartNumbers, c \in PartNumbers }

\* numbers handed to FormatVersion directly
NumbersToFormat == {0, 3030002, 99999999, 100000000, 123456789}

VersionStart(v, n) ==
  [pc |-> "start", version |-> v, number |-> n, parsed |-> None,
   text |-> [raised |-> FALSE, text |-> <<>>]]

\* ParseVersion(version, ".-", [2, 2, 4])
ParseVer ==
  /\ store.pc = "start"
  /\ store' = [store EXCEPT !.pc = "parsed",
                 !.parsed = ParseVersion(store.version, PROTOCOL_VERSION_DIGITS)]
  /\ UNCHANGED skeep

\* FormatVersion of the number ParseVersion returned
FormatParsed ==
  /\ store.pc = "parsed"
  /\ store.parsed # None
  /\ store' = [store EXCEPT !.pc = "formatted",
                 !.text = FormatVersion(store.parsed, <<".">>,
                                        PROTOCOL_VERSION_DIGITS)]
  /\ UNCHANGED skeep

\* FormatVersion of a number that is given
FormatNumber ==
  /\ store.pc = "start"
  /\ store' = [store EXCEPT !.pc = "number",
                 !.text = FormatVersion(store.number, <<".">>,
                                        PROTOCOL_VERSION_DIGITS)]
  /\ UNCHANGED skeep

InitVersion ==
  /\ Idle
  /\ auth = NoAuth
  /\ store \in { VersionStart(v, n) : v \in VersionTexts, n \in NumbersToFormat }

NextVersion == ParseVer \/ FormatParsed \/ FormatNumber

SpecVersion == InitVersion /\ [][NextVersion]_vars

\* the values of the three parts of a version in the usual writing
InRange(vals) == \A i \in 1..3 : vals[i] < Pow10(PROTOCOL_VERSION_DIGITS[i])

Usual(vals) == JoinParts(<<StrOf(vals[1]), StrOf(vals[2]), StrOf(vals[3])>>, <<".">>)

PartTriples == PartNumbers \X PartNumbers \X PartNumbers

\* C34: for digits [2, 2, 4] a version of three parts that fit their digits
\* comes back from FormatVersion(ParseVersion(v)); '3.2.0-6' parses to
\* 3020000; a part whose value does not fit its digits raises ValueError, so
\* two different versions in range never parse to the same number;
\* FormatVersion raises ValueError for a number that is too large.
C34_VersionRoundTrip ==
  /\ \A vals \in PartTriples :
       (store.pc = "formatted" /\ InRange(vals) /\ store.version = Usual(vals))
          => store.text = [raised |-> FALSE, text |-> store.version]
  /\ (store.pc = "parsed" /\ store.version = <<"3", ".", "2", ".", "0", "-", "6">>)
        => store.parsed = 3020000
  /\ \A vals \in PartTriples :
       (store.pc = "parsed" /\ ~InRange(vals) /\ store.version = Usual(vals))
          => store.parsed = None
  /\ \A vals \in PartTriples :
       (store.pc = "parsed" /\ store.parsed # None /\ InRange(vals)
          /\ ParseVersion(Usual(vals), PROTOCOL_VERSION_DIGITS) = store.parsed)
          => ParseVersion(store.version, PROTOCOL_VERSION_DIGITS)
               = ParseVersion(Usual(vals), PROTOCOL_VERSION_DIGITS)
  /\ (store.pc = "number" /\ store.number >= Pow10(8)) => store.text.raised

(* ======================================================================= *)
(* agent.py: the signals the supervisor sends, with processes that exit.   *)
(* ======================================================================= *)
\* what the agent has reported so far, and the processes that are gone:
\* watchdog and reported are the pids of the most recent "Watchdog running
\* with pid" and "Agent running with pid" lines, gone the processes that no
\* longer exist, esrch whether os.kill met such a process in the last handler
NoSignals ==
  [watchdog |-> None, reported |-> None, gone |-> {}, esrch |-> FALSE]

\* os.kill fails with ESRCH for a process that does not exist
Esrch(ss) == \E i \in DOMAIN ss : ss[i].op = "os.kill" /\ ss[i].n \in store.gone

Reported(line, ss) ==
  [store EXCEPT
     !.watchdog = IF line.head = H_WATCHDOG_PID THEN line.num ELSE @,
     !.reported = IF line.head = H_AGENT_PID THEN line.num ELSE @,
     !.esrch = Esrch(ss)]

sigkeep == <<bvars, runner, login, auth>>

\* the lines of the agent, without those that only change the geometry or
\* are logged
SignalLines ==
  { line \in AgentLines : line.head \notin {H_GEOMETRY, H_ERROR, H_WARNING} }

\* one line of the agent's stderr arrives (_HandleStderrLine)
SignalLine ==
  \E line \in SignalLines :
    /\ Handle("line", line, HandleStderrLine(line, Cur))
    /\ store' = Reported(line, HandleStderrLine(line, Cur))
    /\ UNCHANGED sigkeep

\* SessionRunner.Restore -> NxAgentProgram.Restore
SignalRestore ==
  /\ Handle("restore", NoLine, Restore(Cur))
  /\ store' = [store EXCEPT !.esrch = Esrch(Restore(Cur))]
  /\ UNCHANGED sigkeep

\* SessionRunner.__TerminateNxAgent -> NxAgentProgram.Terminate
SignalTerminate ==
  /\ Handle("terminate", NoLine, Terminate(Cur))
  /\ store' = [store EXCEPT !.esrch = Esrch(Terminate(Cur))]
  /\ UNCHANGED sigkeep

\* a process the supervisor knows the pid of exits
ProcessExits(p) ==
  /\ p \notin store.gone
  /\ store' = [store EXCEPT !.gone = @ \cup {p}]
  /\ UNCHANGED <<avars, sigkeep>>

InitSignals ==
  /\ sess \in InitSess
  /\ disk = InitDisk(sess)
  /\ want_restore = FALSE
  /\ agent_pid = SpawnPid
  /\ watchdog_pid = None
  /\ lastop = [op |-> "init", line |-> NoLine,
               old |-> Sup(sess, NoRecord, FALSE, SpawnPid, None), from |-> ""]
  /\ eff = <<>>
  /\ restore_from = ""
  /\ BrokerAt("off")
  /\ runner = NoRunner
  /\ login = NoLogin
  /\ auth = NoAuth
  /\ store = NoSignals

NextSignals ==
  \/ SignalLine
  \/ SignalRestore
  \/ SignalTerminate
  \/ \E p \in Pids : ProcessExits(p)

SpecSignals == InitSignals /\ [][NextSignals]_vars

\* the signals the last handler sent
SignalsSent == { i \in DOMAIN eff : eff[i].op = "os.kill" }

LastIsWaitWatchdog == LastIsLine /\ lastop.line.head = H_WAIT_WATCHDOG

\* C35: the handler of the line "Waiting the watchdog process to complete"
\* sends one terminate signal to the pid of the most recent "Watchdog
\* running with pid" line and no signal to any other pid; when no such line
\* came before, there is no watchdog pid and it sends no signal at all.
C35_WatchdogTerminated ==
  LastIsWaitWatchdog =>
    eff = (IF store.watchdog = None THEN <<>>
           ELSE <<Kill("SIGTERM", store.watchdog)>>)

\* the watchdog reported a pid that is not the agent's and was terminated
C35_Witness ==
  /\ LastIsWaitWatchdog
  /\ store.watchdog # None
  /\ store.watchdog # agent_pid
  /\ SignalsSent # {}

\* the pid a signal for the agent has to go to
AgentTarget == IF store.reported = None THEN SpawnPid ELSE store.reported

\* C36: a terminate or hangup signal for the agent goes to the pid of the
\* most recent "Agent running with pid" line, and to the spawned pid while
\* there is no such line, so never to the spawned pid after another pid was
\* reported; when the process no longer exists the handler goes on as if
\* the signal had been sent and raises nothing.
C36_SignalsFollowReportedPid ==
  ~LastIsWaitWatchdog =>
    /\ \A i \in SignalsSent : eff[i].n = AgentTarget
    /\ (store.reported \notin {None, SpawnPid}) =>
         \A i \in SignalsSent : eff[i].n # SpawnPid
    /\ store.esrch => ~Raised(eff)
    /\ lastop.op = "terminate" => eff = <<Kill("SIGTERM", AgentTarget)>>

\* a terminate signal went to a reported pid whose process was gone
C36_Witness ==
  /\ lastop.op = "terminate"
  /\ store.reported \notin {None, SpawnPid}
  /\ store.esrch
  /\ SignalsSent # {}

(* ======================================================================= *)
(* agent.py: restore requests and the hangups that resume the session.     *)
(* ======================================================================= *)
\* restore requests tried
MaxRestores == 2

\* requests: the restore requests accepted so far; resumes: the hangups sent
\* to a suspended agent so far
NoResumes == [requests |-> 0, resumes |-> 0]

HangupsIn(ss) ==
  Cardinality({ i \in DOMAIN ss : ss[i].op = "os.kill" /\ ss[i].a = "SIGHUP" })

\* status and geometry lines: the lines that bear on a restore
ResumeLines ==
  { line \in AgentLines : IsStatusLine(line) \/ line.head = H_GEOMETRY }

\* one line of the agent's stderr arrives (_HandleStderrLine)
ResumeLine ==
  \E line \in ResumeLines :
    /\ Handle("line", line, HandleStderrLine(line, Cur))
    /\ store' = [store EXCEPT
                   !.resumes = @ + HangupsIn(HandleStderrLine(line, Cur))]
    /\ UNCHANGED sigkeep

\* SessionRunner.Restore -> NxAgentProgram.Restore; the hangup of a restore
\* in state running suspends the session, any other resumes it
ResumeRequest ==
  /\ store.requests < MaxRestores
  /\ Handle("restore", NoLine, Restore(Cur))
  /\ store' = [requests |-> store.requests
                              + (IF Raised(Restore(Cur)) THEN 0 ELSE 1),
               resumes |-> store.resumes
                             + (IF sess.state = SESS_STATE_RUNNING THEN 0
                                ELSE HangupsIn(Restore(Cur)))]
  /\ UNCHANGED sigkeep

InitResume ==
  /\ sess \in InitSess
  /\ disk = InitDisk(sess)
  /\ want_restore = FALSE
  /\ agent_pid = SpawnPid
  /\ watchdog_pid = None
  /\ lastop = [op |-> "init", line |-> NoLine,
               old |-> Sup(sess, NoRecord, FALSE, SpawnPid, None), from |-> ""]
  /\ eff = <<>>
  /\ restore_from = ""
  /\ BrokerAt("off")
  /\ runner = NoRunner
  /\ login = NoLogin
  /\ auth = NoAuth
  /\ store = NoResumes

NextResume == ResumeLine \/ ResumeRequest

SpecResume == InitResume /\ [][NextResume]_vars

\* the last handler moved the record into suspended from another state
IntoSuspended ==
  /\ LastIsStatusLine
  /\ LastStatus = SESS_STATE_SUSPENDED
  /\ OldState # SESS_STATE_SUSPENDED

\* C37: the handler of a transition into suspended sends a hangup only when
\* a restore request is pending, it sends at most one, and the request is no
\* longer pending afterwards; the resume hangups sent so far, with the
\* request still pending, never outnumber the restore requests; a
\* transition into suspended with no request pending sends no signal and
\* leaves the record suspended.
C37_OneResumePerRestore ==
  /\ (IntoSuspended /\ Hangups # {}) =>
       /\ lastop.old.want_restore
       /\ Cardinality(Hangups) = 1
       /\ ~want_restore
  /\ store.resumes + (IF want_restore THEN 1 ELSE 0) <= store.requests
  /\ (IntoSuspended /\ ~lastop.old.want_restore) =>
       /\ SignalsSent = {}
       /\ sess.state = SESS_STATE_SUSPENDED
       /\ ~want_restore

\* two restore requests, the second resume hangup sent on becoming suspended
C37_Witness ==
  /\ IntoSuspended
  /\ Hangups # {}
  /\ store.requests = 2
  /\ store.resumes = 2

(* ------------------------------- C38 ----------------------------------- *)
\* how often child c was started
TimesStarted(c) ==
  Cardinality({ i \in DOMAIN runner.started : runner.started[i] = c })

\* C38: whatever lines the agent writes, the display-ready event is emitted
\* at most once in a session: the handler that emits it finds the record in
\* created and no xrdb started, and the record never returns to created; so
\* xrdb and the user application are each started at most once.
C38_DisplayReadyOnce ==
  /\ [](TimesStarted("xrdb") <= 1 /\ TimesStarted("userapp") <= 1)
  /\ [][/\ (LineStep /\ DisplayReady(eff')) =>
             /\ sess.state = SESS_STATE_CREATED
             /\ sess'.state # SESS_STATE_CREATED
             /\ ~Started("xrdb")
        /\ Started("xrdb") => sess'.state # SESS_STATE_CREATED]_vars

\* xrdb runs and the agent has written "Starting session" once more, after
\* the record had moved on; nothing was emitted
C38_Witness ==
  /\ LastIsStatusLine
  /\ LastStatus = SESS_STATE_STARTING
  /\ OldState \notin {SESS_STATE_CREATED, SESS_STATE_STARTING}
  /\ TimesStarted("xrdb") = 1
  /\ ~DisplayReady(eff)

(* ------------------------------- C39 ----------------------------------- *)
\* the runner's main loop delivers the exit of a child it waits for; that the
\* error dialog is closed at some time is what the statement about it
\* supposes
SpecNodeFair == InitNode /\ [][NextNode]_vars /\ WF_vars(NxDialogDone)

UserAppExits == runner.userapp.st = "running" /\ runner'.userapp.st = "exited"

DialogExits == runner.nxdialog.st = "running" /\ runner'.nxdialog.st = "exited"

\* the record is in starting, waiting or running
StillInUse ==
  sess.state \in {SESS_STATE_STARTING, SESS_STATE_WAITING, SESS_STATE_RUNNING}

\* what the exits of the user application and of the dialog do, step by step
UserAppExitSteps ==
  [][/\ (UserAppExits /\ (~Failed(runner'.userapp) \/ ~StillInUse)) =>
          /\ runner'.terminated
          /\ ~Starts("nxdialog")
     /\ (UserAppExits /\ Failed(runner'.userapp) /\ StillInUse) =>
          /\ Starts("nxdialog")
          /\ ~runner'.terminated
     /\ DialogExits => runner'.terminated
     /\ (~runner.terminated /\ runner'.terminated) =>
          UserAppExits \/ DialogExits]_vars

MaxReads == 3

Newline == "\n"

\* what one read of stderr can return
ReadData ==
  { <<"a">>, <<Newline>>, <<"a", Newline>>, <<"a", Newline, "a">> }

\* the status waitpid(2) reports: exit 0, exit 1, killed by SIGTERM
WaitStatuses == {0, 256, 15}

\* ChopReader.__ParseBuffer: the slices that end with the separator, in
\* order, and what is left of the buffer
RECURSIVE Chop(_, _, _)
Chop(buf, slice, done) ==
  IF buf = <<>> THEN [slices |-> done, rest |-> slice]
  ELSE IF Head(buf) = Newline THEN Chop(Tail(buf), <<>>, Append(done, slice))
  ELSE Chop(Tail(buf), Append(slice, Head(buf)), done)

ParseBuffer(buf) == Chop(buf, <<>>, <<>>)

\* Program.__init__ and Start: the three channels are attached, nothing was
\* read, no exit status yet.  closed: the channels whose IOChannel is
\* closed; buf: the buffer of stderr_line; slices: what stderr_line has
\* emitted; written: all that was read from stderr; exited: how often the
\* exited signal was emitted; seen: slices at the time of the first one
ChildStarted ==
  [closed |-> {}, exitcode |-> None, buf |-> <<>>, slices |-> <<>>,
   written |-> <<>>, reads |-> 0, exited |-> 0, seen |-> <<>>]

Channels == {"stdin", "stdout", "stderr"}

\* Program.__CheckExit, called with the state c: the exited signal is
\* emitted if all channels are closed and the exit status is there
CheckExit(c) ==
  IF c.closed = Channels /\ c.exitcode # None
    THEN [c EXCEPT !.exited = @ + 1,
                   !.seen = IF c.exited = 0 THEN c.slices ELSE @]
    ELSE c

\* ChopReader.__Closed: the slices left in the buffer and then the rest
ChopClosed(c) ==
  LET p == ParseBuffer(c.buf) IN
    [c EXCEPT !.buf = <<>>,
              !.slices = @ \o p.slices
                           \o (IF p.rest # <<>> THEN <<p.rest>> ELSE <<>>)]

\* the handlers of a channel's closed signal, in the order in which they
\* were connected: Program.__HandlePipeClosed by Program.__init__, then
\* ChopReader.__Closed by stderr_line.Attach
ClosedHandlers(c, ch) ==
  IF ch = "stderr" THEN ChopClosed(CheckExit(c)) ELSE CheckExit(c)

\* IOChannel.__Read returns data: ChopReader.__ReceivedData
StderrRead(data) ==
  /\ "stderr" \notin store.closed
  /\ store.reads < MaxReads
  /\ LET p == ParseBuffer(store.buf \o data) IN
       store' = [store EXCEPT !.buf = p.rest, !.slices = @ \o p.slices,
                              !.written = @ \o data, !.reads = @ + 1]
  /\ UNCHANGED skeep

\* IOChannel.__Close: the channel is closed and the closed signal emitted
ChannelClose(ch) ==
  /\ ch \notin store.closed
  /\ store' = ClosedHandlers([store EXCEPT !.closed = @ \cup {ch}], ch)
  /\ UNCHANGED skeep

\* Program.__HandleExit: the child watch reports the exit status
HandleExit(status) ==
  /\ store.exitcode = None
  /\ store' = CheckExit([store EXCEPT !.exitcode = status])
  /\ UNCHANGED skeep

InitChild ==
  /\ Idle
  /\ auth = NoAuth
  /\ store = ChildStarted

NextChild ==
  \/ \E data \in ReadData : StderrRead(data)
  \/ \E ch \in Channels : ChannelClose(ch)
  \/ \E status \in WaitStatuses : HandleExit(status)

SpecChild == InitChild /\ [][NextChild]_vars

\* the lines of a text: its slices, and what follows the last separator
LinesOf(text) ==
  LET p == ParseBuffer(text) IN
    p.slices \o (IF p.rest # <<>> THEN <<p.rest>> ELSE <<>>)

AllDone == store.closed = Channels /\ store.exitcode # None

\* C40: the exited signal is emitted once, when the three channels are
\* closed and the exit status has been collected, whatever the order; at
\* that time every line read from stderr has been emitted to the line
\* handlers, a last line without newline too.
C40_ExitedAfterAllOutput ==
  /\ store.exited = (IF AllDone THEN 1 ELSE 0)
  /\ store.exited > 0 => store.seen = LinesOf(store.written)

==============================================================================
